---- MODULE Spec2Model ----
(***************************************************************************)
(* Model of the validator bridge relayer's event dispatch pipeline:        *)
(* the Controller (src/src/controller.rs) and its ControllerStorage        *)
(* (src/src/controller_storage.rs).                                        *)
(*                                                                         *)
(* The Controller thread reads its inbox channel (controller_rx) one event *)
(* at a time and runs the closure of Controller::start on it.  One action  *)
(* of the model is one run of that closure.  The outbox channel            *)
(* (executor_tx) is the sequence of events sent so far.                    *)
(***************************************************************************)
EXTENDS Integers, Sequences, FiniteSets, TLC

\* ------------------------------------------------------------------------
\* Bounds of the model

\* number of events the Controller reads from its inbox, full event alphabet
MaxEvents == 3
\* number of events the Controller reads from its inbox, scenario alphabets
MaxScenario == 6

\* ------------------------------------------------------------------------
\* Field domains.  The values are those of the test constants of
\* controller_storage.rs: MESSAGE_ID = [0; 32], MESSAGE_ID2 = [1; 32],
\* ETH_ADDRESS = [7; 20], SUB_ADDRESS = [7; 32], BLOCK_NUMBER = 0.
\* An EthAddress and a SubAddress are both modelled by their repeated byte.

MessageIds == {0, 1}
AddressBytes == {7}
BlockNumbers == {0}

\* ------------------------------------------------------------------------
\* enum Address { Eth(EthAddress), Sub(SubAddress) } and Option<Address>

Eth(b) == <<"Eth", b>>
Sub(b) == <<"Sub", b>>
None == <<"None", 0>>
Address == {Eth(b) : b \in AddressBytes} \cup {Sub(b) : b \in AddressBytes}

\* ------------------------------------------------------------------------
\* enum Event.  An event is a record of its variant name (kind), its
\* message id, the first address field of the variant (0 when the variant
\* has none) and its block number.  The further fields of a variant
\* (receiver, amount, token id, timestamp, limits) are compared by the
\* derived equality but read by no code of the Controller; they are fixed.

EthAddressKinds ==
    { "EthBridgeStartedMessage", "EthBridgeStoppedMessage",
      "EthRelayMessage", "EthApprovedRelayMessage", "EthRevertMessage",
      "EthHostAccountPausedMessage", "EthHostAccountResumedMessage" }

SubAddressKinds ==
    { "EthGuestAccountPausedMessage", "EthGuestAccountResumedMessage",
      "SubApprovedRelayMessage", "SubBurnedMessage",
      "SubAccountPausedMessage", "SubAccountResumedMessage" }

NoAddressKinds ==
    { "EthBridgePausedMessage", "EthBridgeResumedMessage",
      "EthWithdrawMessage", "EthSetNewLimits", "EthValidatorsListMessage",
      "SubRelayMessage", "SubMintedMessage",
      "SubCancellationConfirmedMessage" }

Kinds == EthAddressKinds \cup SubAddressKinds \cup NoAddressKinds

Ev(k, i, a, b) == [kind |-> k, id |-> i, addr |-> a, bn |-> b]

Event ==
    { Ev(k, i, a, b) : k \in EthAddressKinds \cup SubAddressKinds,
                       i \in MessageIds, a \in AddressBytes, b \in BlockNumbers }
    \cup
    { Ev(k, i, 0, b) : k \in NoAddressKinds, i \in MessageIds, b \in BlockNumbers }

\* the value of the model's variable event before the first event is read
NoEvent == Ev("None", 0, 0, 0)

\* Event::message_id
message_id(e) == e.id

\* Event::block_number
block_number(e) == e.bn

\* Event::event_type
event_type(e) ==
    CASE e.kind = "EthRelayMessage" -> "Transfer"
      [] e.kind = "EthApprovedRelayMessage" -> "Transfer"
      [] e.kind = "EthRevertMessage" -> "Other"
      [] e.kind = "EthWithdrawMessage" -> "Transfer"
      [] e.kind = "SubRelayMessage" -> "Transfer"
      [] e.kind = "SubApprovedRelayMessage" -> "Transfer"
      [] e.kind = "SubBurnedMessage" -> "Transfer"
      [] e.kind = "SubMintedMessage" -> "Transfer"
      [] e.kind = "SubCancellationConfirmedMessage" -> "Other"
      [] OTHER -> "Other"

\* Event::sender
sender(e) ==
    CASE e.kind = "EthRelayMessage" -> Eth(e.addr)
      [] e.kind = "EthApprovedRelayMessage" -> Eth(e.addr)
      [] e.kind = "EthRevertMessage" -> Eth(e.addr)
      [] e.kind = "EthWithdrawMessage" -> None
      [] e.kind = "SubRelayMessage" -> None
      [] e.kind = "SubApprovedRelayMessage" -> Sub(e.addr)
      [] e.kind = "SubBurnedMessage" -> Sub(e.addr)
      [] e.kind = "SubMintedMessage" -> None
      [] e.kind = "SubCancellationConfirmedMessage" -> None
      [] OTHER -> None

\* ------------------------------------------------------------------------
\* ControllerStorage.  A storage value is a record of the struct's fields;
\* the two HashMaps are functions whose DOMAIN is the set of keys.

\* ControllerStorage::new
NewStorage ==
    [ events |-> <<>>,
      events_queue |-> <<>>,
      events_of_blocked_accounts |-> <<>> ]

\* HashMap::insert
Insert(m, k, v) == [x \in (DOMAIN m) \cup {k} |-> IF x = k THEN v ELSE m[x]]

\* HashMap::remove
Remove(m, k) == [x \in (DOMAIN m) \ {k} |-> m[x]]

\* put_event without the guard `if e == event`: nothing is a duplicate
put_event_result_no_guard(st, e) == "Ok"

\* put_event with the guard `if e.message_id() == event.message_id()`
put_event_result_by_id(st, e) ==
    IF message_id(e) \in DOMAIN st.events THEN "Duplicate" ELSE "Ok"

\* ControllerStorage::put_event, the result
put_event_result(st, e) ==
    IF message_id(e) \in DOMAIN st.events /\ st.events[message_id(e)] = e
    THEN "Duplicate"
    ELSE "Ok"

\* ControllerStorage::put_event, the storage afterwards
put_event(st, e) ==
    IF put_event_result(st, e) = "Duplicate"
    THEN st
    ELSE [st EXCEPT !.events = Insert(st.events, message_id(e), e)]

\* put_event_to_queue that inserts at the front instead of pushing
put_event_to_queue_front(st, e) ==
    [st EXCEPT !.events_queue = <<e>> \o st.events_queue]

\* ControllerStorage::put_event_to_queue
put_event_to_queue(st, e) ==
    [st EXCEPT !.events_queue = Append(st.events_queue, e)]

\* iter_events_queue that iterates from the back
iter_events_queue_rev(st) ==
    [i \in 1..Len(st.events_queue) |->
        st.events_queue[Len(st.events_queue) + 1 - i]]

\* ControllerStorage::iter_events_queue, collected
iter_events_queue(st) == st.events_queue

\* clear_events_queue that clears nothing
clear_events_queue_noop(st) == st

\* ControllerStorage::clear_events_queue
clear_events_queue(st) == [st EXCEPT !.events_queue = <<>>]

\* block_account without the test of contains_key: the insert replaces the
\* queue of an account that is already blocked
block_account_insert_always(st, a) ==
    [st EXCEPT !.events_of_blocked_accounts =
                   Insert(st.events_of_blocked_accounts, a, <<>>)]

\* ControllerStorage::block_account
block_account(st, a) ==
    IF a \notin DOMAIN st.events_of_blocked_accounts
    THEN [st EXCEPT !.events_of_blocked_accounts =
                        Insert(st.events_of_blocked_accounts, a, <<>>)]
    ELSE st

\* unblock_account that puts the queue of the account before the events of
\* the global queue
unblock_account_front(st, a) ==
    IF a \in DOMAIN st.events_of_blocked_accounts
    THEN [st EXCEPT
            !.events_queue = st.events_of_blocked_accounts[a] \o st.events_queue,
            !.events_of_blocked_accounts = Remove(st.events_of_blocked_accounts, a)]
    ELSE st

\* ControllerStorage::unblock_account
unblock_account(st, a) ==
    IF a \in DOMAIN st.events_of_blocked_accounts
    THEN [st EXCEPT
            !.events_queue = st.events_queue \o st.events_of_blocked_accounts[a],
            !.events_of_blocked_accounts = Remove(st.events_of_blocked_accounts, a)]
    ELSE st

\* is_account_blocked that compares the bytes of the address and not its
\* chain
is_account_blocked_by_bytes(st, address) ==
    IF address = None
    THEN FALSE
    ELSE \E a \in DOMAIN st.events_of_blocked_accounts : a[2] = address[2]

\* ControllerStorage::is_account_blocked
is_account_blocked(st, address) ==
    IF address = None
    THEN FALSE
    ELSE address \in DOMAIN st.events_of_blocked_accounts

\* ControllerStorage::put_event_to_account_queue (sender() is Some by the
\* caller's test of is_account_blocked; the expect cannot fail there)
put_event_to_account_queue(st, e) ==
    IF sender(e) \in DOMAIN st.events_of_blocked_accounts
    THEN [st EXCEPT !.events_of_blocked_accounts =
            Insert(st.events_of_blocked_accounts, sender(e),
                   Append(st.events_of_blocked_accounts[sender(e)], e))]
    ELSE st

\* ------------------------------------------------------------------------
\* Controller

Status == {"NotReady", "Active", "Paused", "Stopped"}

\* change_status that treats Stopped as it treats NotReady and Paused
change_status_stopped_resumes(s, e) ==
    CASE s = "Active" ->
            (CASE e.kind = "EthBridgePausedMessage" -> "Paused"
               [] e.kind = "EthBridgeStoppedMessage" -> "Stopped"
               [] OTHER -> s)
      [] OTHER ->
            (IF e.kind \in {"EthBridgeResumedMessage", "EthBridgeStartedMessage"}
             THEN "Active" ELSE s)

\* change_status: the status after the event
change_status(s, e) ==
    CASE s = "Active" ->
            (CASE e.kind = "EthBridgePausedMessage" -> "Paused"
               [] e.kind = "EthBridgeStoppedMessage" -> "Stopped"
               [] OTHER -> s)
      [] s \in {"NotReady", "Paused"} ->
            (IF e.kind \in {"EthBridgeResumedMessage", "EthBridgeStartedMessage"}
             THEN "Active" ELSE s)
      [] s = "Stopped" ->
            (IF e.kind = "EthBridgeStartedMessage" THEN "Active" ELSE s)

\* handle_account_control_events
handle_account_control_events(st, e) ==
    CASE e.kind = "EthHostAccountPausedMessage" -> block_account(st, Eth(e.addr))
      [] e.kind = "EthHostAccountResumedMessage" -> unblock_account(st, Eth(e.addr))
      [] e.kind = "EthGuestAccountPausedMessage" -> block_account(st, Sub(e.addr))
      [] e.kind = "EthGuestAccountResumedMessage" -> unblock_account(st, Sub(e.addr))
      [] OTHER -> st

\* the for_each over deferred_events with the send only, without
\* handle_account_control_events
RECURSIVE Replay_send_only(_, _)
Replay_send_only(c, deferred) ==
    IF deferred = <<>>
    THEN c
    ELSE LET q == Head(deferred)
         IN Replay_send_only(
                [ st |-> c.st,
                  out |-> Append(c.out, q),
                  blk |-> Append(c.blk, is_account_blocked(c.st, sender(q))) ],
                Tail(deferred))

\* The for_each over deferred_events in Controller::start: for every event
\* of the snapshot, in order, handle_account_control_events and then
\* executor_tx.send.  The value is the storage and the channel afterwards;
\* blk records, per send, is_account_blocked(sender) at that moment.
RECURSIVE Replay(_, _)
Replay(c, deferred) ==
    IF deferred = <<>>
    THEN c
    ELSE LET q == Head(deferred)
             st1 == handle_account_control_events(c.st, q)
         IN Replay([ st |-> st1,
                     out |-> Append(c.out, q),
                     blk |-> Append(c.blk, is_account_blocked(st1, sender(q))) ],
                   Tail(deferred))

\* ------------------------------------------------------------------------
\* State

VARIABLES
    status,            \* Controller.status
    storage,           \* Controller.storage
    executor_tx,       \* the events sent on the outbox channel, in order
    blocked_at_send,   \* per sent event: was its sender blocked at the send
    event,             \* the event of the last run of the closure
    result,            \* what put_event returned in that run
    deferred_events,   \* the snapshot of the global queue taken in that run
    history,           \* per event read from controller_rx: the event, the
                       \* result of put_event, the status and the number of
                       \* events sent when the closure returned
    call,              \* the last call of a ControllerStorage method made
                       \* directly (as the unit tests do)
    graph_node,        \* the indexed store: the records of each category
    offsets,           \* EventListener.*_offset, by category
    listener_pc,       \* where EventListener::start stands
    controller_tx,     \* the inbox: the events sent to the Controller, in
                       \* the order the Controller reads them
    last_events,       \* the events vector of the last EventListener step
    ethereum_event_listener, \* where the EventListener of
                       \* ethereum_event_listener.rs stands, and what it sent
    controller_thread, \* the thread of the Controller: running or panicked
    executor_thread,   \* the thread of the Executor: running or dead
    operations,        \* per event the Executor read from executor_rx: the
                       \* chain and the method of the transaction it built
    tasks,             \* the futures the Executor spawned for host
                       \* transactions
    web3               \* the host chain as the RPC shows it

controller_vars == <<status, executor_tx, blocked_at_send, deferred_events,
                     history>>
storage_vars == <<storage, event, result, call>>
listener_vars == <<graph_node, offsets, listener_pc, controller_tx,
                   last_events>>

daemon_vars == <<ethereum_event_listener, controller_thread, executor_thread,
                 operations, tasks, web3>>

vars == <<controller_vars, storage_vars, listener_vars, daemon_vars>>

\* ------------------------------------------------------------------------
\* The indexed store read by the EventListener of
\* src/src/graph_node_event_listener.rs.  A record of the store keeps the
\* fields the decoding reads: its id, its eth_block_number, its status (of a
\* transfer message) or action (of a bridge or account message), its
\* direction, and the repeated byte of its address.

Rec(i, b, s, d) ==
    [id |-> i, eth_block_number |-> b, status |-> s, direction |-> d]

Categories ==
    {"messages", "bridge_messages", "account_messages", "limit_messages"}

\* the order in which set_offsets and handle_last_events go over the
\* categories
CategoryOrder ==
    <<"messages", "bridge_messages", "account_messages", "limit_messages">>

\* every status of a transfer message, the final one included
EVERY_STATUS == <<"PENDING", "WITHDRAW", "APPROVED", "CANCELED", "CONFIRMED">>

\* const UNFINALIZED_STATUSES of handle_unfinalized_events
UNFINALIZED_STATUSES == <<"PENDING", "WITHDRAW", "APPROVED", "CANCELED">>

\* The contents the store may have when the EventListener starts: transfer
\* messages at the blocks 5, 7 and 9, each one absent, unfinalized or in a
\* final status; a bridge message, an account message, a limits message
\* and the accounts blocked today.
MessageBlocks == {5, 7, 9}
MessageStatuses == {"PENDING", "CONFIRMED"}

Messages ==
    { m \in SUBSET { Rec(b, b, s, "ETH2SUB") :
                         b \in MessageBlocks, s \in MessageStatuses } :
        \A r1 \in m, r2 \in m :
            r1.eth_block_number = r2.eth_block_number => r1 = r2 }

BridgeMessages == SUBSET { Rec(6, 6, "PAUSE", "") }
AccountMessages == SUBSET { Rec(4, 4, "PAUSE", "SUB2ETH") }
LimitMessages == SUBSET { Rec(3, 3, "", "") }
Accounts == SUBSET { Rec(2, 2, "BLOCKED", "ETH"), Rec(1, 1, "BLOCKED", "SUB") }

GraphNode ==
    [ messages : Messages, bridge_messages : BridgeMessages,
      account_messages : AccountMessages, limit_messages : LimitMessages,
      accounts : Accounts ]

EmptyGraphNode ==
    [ messages |-> {}, bridge_messages |-> {}, account_messages |-> {},
      limit_messages |-> {}, accounts |-> {} ]

\* EventListener::new
NewEventListener ==
    /\ offsets = [c \in Categories |-> 0]
    /\ listener_pc = [fn |-> "handle_blocked_accounts", ticks |-> 0]
    /\ controller_tx = <<>>
    /\ last_events = <<>>

\* the threads of main have just been spawned: no event has reached the
\* Executor, the validator has sent no transaction to the host chain, whose
\* bridge contract is in the status 0
NewDaemon ==
    /\ ethereum_event_listener = [pc |-> "start", sent |-> <<>>]
    /\ controller_thread = "running"
    /\ executor_thread = "running"
    /\ operations = <<>>
    /\ tasks = <<>>
    /\ web3 = [bridge_status |-> 0, transaction_count |-> 0,
               transactions |-> <<>>]

\* no method of the storage has been called directly; n is the number of
\* the calls made, modulo 2
NoCall == [op |-> "none", address |-> None, n |-> 0]

\* Controller::new
Init ==
    /\ status = "NotReady"
    /\ storage = NewStorage
    /\ executor_tx = <<>>
    /\ blocked_at_send = <<>>
    /\ event = NoEvent
    /\ result = "None"
    /\ deferred_events = <<>>
    /\ history = <<>>
    /\ call = NoCall
    /\ graph_node = EmptyGraphNode
    /\ NewEventListener
    /\ NewDaemon

Entry(e, r, s, n) == [event |-> e, result |-> r, status |-> s, sent |-> n]

\* Controller::start, the closure: put_event returned Err(Duplicate)
ReceiveDuplicate(e) ==
    /\ controller_thread = "running"
    /\ put_event_result(storage, e) = "Duplicate"
    /\ event' = e
    /\ result' = "Duplicate"
    /\ deferred_events' = <<>>
    /\ history' = Append(history, Entry(e, "Duplicate", status, Len(executor_tx)))
    /\ UNCHANGED <<call, listener_vars, daemon_vars>>
    /\ UNCHANGED <<status, storage, executor_tx, blocked_at_send>>

\* the Active arm with the triggering event sent before the drain of the
\* global queue instead of after it
ReceiveActive_trigger_first(e) ==
    /\ controller_thread = "running"
    /\ put_event_result(storage, e) = "Ok"
    /\ change_status(status, e) = "Active"
    /\ LET st0 == put_event(storage, e)
           st1 == handle_account_control_events(st0, e)
           deferred == iter_events_queue(st1)
           quarantine == event_type(e) = "Transfer"
                           /\ is_account_blocked(st1, sender(e))
           first == IF quarantine
                    THEN [st |-> put_event_to_account_queue(st1, e),
                          out |-> executor_tx, blk |-> blocked_at_send]
                    ELSE [st |-> st1,
                          out |-> Append(executor_tx, e),
                          blk |-> Append(blocked_at_send,
                                         is_account_blocked(st1, sender(e)))]
           c == Replay(first, deferred)
       IN /\ status' = "Active"
          /\ deferred_events' = deferred
          /\ storage' = clear_events_queue(c.st)
          /\ executor_tx' = c.out
          /\ blocked_at_send' = c.blk
    /\ event' = e
    /\ result' = "Ok"
    /\ history' = Append(history, Entry(e, "Ok", "Active", Len(executor_tx')))
    /\ executor_thread = "running" \/ executor_tx' = executor_tx
    /\ UNCHANGED <<call, listener_vars, daemon_vars>>

\* Controller::start, the closure: put_event returned Ok and the status
\* after change_status is Active; every executor_tx.send returned Ok, which
\* it does while the Executor holds executor_rx
ReceiveActive(e) ==
    /\ controller_thread = "running"
    /\ put_event_result(storage, e) = "Ok"
    /\ change_status(status, e) = "Active"
    /\ LET st0 == put_event(storage, e)
           st1 == handle_account_control_events(st0, e)
           deferred == iter_events_queue(st1)
           c == Replay([st |-> st1, out |-> executor_tx, blk |-> blocked_at_send],
                       deferred)
           st2 == clear_events_queue(c.st)
       IN /\ status' = "Active"
          /\ deferred_events' = deferred
          /\ IF event_type(e) = "Transfer" /\ is_account_blocked(st2, sender(e))
             THEN /\ storage' = put_event_to_account_queue(st2, e)
                  /\ executor_tx' = c.out
                  /\ blocked_at_send' = c.blk
             ELSE /\ storage' = st2
                  /\ executor_tx' = Append(c.out, e)
                  /\ blocked_at_send' =
                        Append(c.blk, is_account_blocked(st2, sender(e)))
    /\ event' = e
    /\ result' = "Ok"
    /\ history' = Append(history, Entry(e, "Ok", "Active", Len(executor_tx')))
    /\ executor_thread = "running" \/ executor_tx' = executor_tx
    /\ UNCHANGED <<call, listener_vars, daemon_vars>>

\* the inactive arm with handle_account_control_events applied as in the
\* Active arm
ReceiveInactive_account_control(e) ==
    /\ controller_thread = "running"
    /\ put_event_result(storage, e) = "Ok"
    /\ change_status(status, e) \in {"NotReady", "Paused", "Stopped"}
    /\ status' = change_status(status, e)
    /\ storage' = put_event_to_queue(
                      handle_account_control_events(put_event(storage, e), e), e)
    /\ event' = e
    /\ result' = "Ok"
    /\ deferred_events' = <<>>
    /\ history' = Append(history, Entry(e, "Ok", status', Len(executor_tx)))
    /\ UNCHANGED <<call, listener_vars, daemon_vars>>
    /\ UNCHANGED <<executor_tx, blocked_at_send>>

\* Controller::start, the closure: put_event returned Ok and the status
\* after change_status is NotReady, Paused or Stopped
ReceiveInactive(e) ==
    /\ controller_thread = "running"
    /\ put_event_result(storage, e) = "Ok"
    /\ change_status(status, e) \in {"NotReady", "Paused", "Stopped"}
    /\ status' = change_status(status, e)
    /\ storage' = put_event_to_queue(put_event(storage, e), e)
    /\ event' = e
    /\ result' = "Ok"
    /\ deferred_events' = <<>>
    /\ history' = Append(history, Entry(e, "Ok", status', Len(executor_tx)))
    /\ UNCHANGED <<call, listener_vars, daemon_vars>>
    /\ UNCHANGED <<executor_tx, blocked_at_send>>

\* the failed send logged instead of fatal: the Controller goes on to the
\* next event
SendFailed_logged(e) ==
    /\ controller_thread = "running"
    /\ executor_thread = "dead"
    /\ put_event_result(storage, e) = "Ok"
    /\ change_status(status, e) = "Active"
    /\ LET st0 == put_event(storage, e)
           st1 == handle_account_control_events(st0, e)
           deferred == iter_events_queue(st1)
           st2 == clear_events_queue(st1)
       IN /\ \/ deferred # <<>>
             \/ ~(event_type(e) = "Transfer"
                    /\ is_account_blocked(st2, sender(e)))
          /\ storage' = IF deferred # <<>>
                        THEN handle_account_control_events(st1, Head(deferred))
                        ELSE st2
          /\ deferred_events' = deferred
    /\ status' = "Active"
    /\ event' = e
    /\ result' = "Ok"
    /\ history' = Append(history, Entry(e, "Ok", "Active", Len(executor_tx)))
    /\ controller_thread' = "running"
    /\ UNCHANGED <<executor_tx, blocked_at_send, call, listener_vars,
                   ethereum_event_listener, executor_thread, operations,
                   tasks, web3>>

\* Controller::start, the closure: put_event returned Ok, the status after
\* change_status is Active and executor_tx.send returned Err because the
\* Executor has dropped executor_rx: expect("can not sent event") panics in
\* the first send, that of the first deferred event or, with an empty
\* queue, that of the event read
SendFailed(e) ==
    /\ controller_thread = "running"
    /\ executor_thread = "dead"
    /\ put_event_result(storage, e) = "Ok"
    /\ change_status(status, e) = "Active"
    /\ LET st0 == put_event(storage, e)
           st1 == handle_account_control_events(st0, e)
           deferred == iter_events_queue(st1)
           st2 == clear_events_queue(st1)
       IN /\ \/ deferred # <<>>
             \/ ~(event_type(e) = "Transfer"
                    /\ is_account_blocked(st2, sender(e)))
          /\ storage' = IF deferred # <<>>
                        THEN handle_account_control_events(st1, Head(deferred))
                        ELSE st2
          /\ deferred_events' = deferred
    /\ status' = "Active"
    /\ event' = e
    /\ result' = "Ok"
    /\ history' = Append(history, Entry(e, "Ok", "Active", Len(executor_tx)))
    /\ controller_thread' = "panicked"
    /\ UNCHANGED <<executor_tx, blocked_at_send, call, listener_vars,
                   ethereum_event_listener, executor_thread, operations,
                   tasks, web3>>

\* the thread of the Executor ends (a panic in Executor::start or in a
\* handler it calls) and drops executor_rx
ExecutorDies ==
    /\ executor_thread = "running"
    /\ executor_thread' = "dead"
    /\ UNCHANGED <<controller_vars, storage_vars, listener_vars,
                   ethereum_event_listener, controller_thread, operations,
                   tasks, web3>>

\* ------------------------------------------------------------------------
\* The inbox.  The producers push events in any order, so the Controller
\* reads any event of an alphabet next.

\* Scenario alphabet: the events of scenarios S3 (account quarantine) and
\* S4 (pause / resume) of the specification, with the message ids given
\* there (0x10 .. 0x13, 0xA1, 0xA3), and the BridgeStarted event 0x01 that
\* brings the Controller to Active.  S is SUB_ADDRESS, A is ETH_ADDRESS.
BridgeStarted01 == Ev("EthBridgeStartedMessage", 1, 7, 0)
GuestAccountPaused10 == Ev("EthGuestAccountPausedMessage", 16, 7, 0)
HostRelay11 == Ev("EthRelayMessage", 17, 7, 0)
GuestApprovedRelay12 == Ev("SubApprovedRelayMessage", 18, 7, 0)
GuestAccountResumed13 == Ev("EthGuestAccountResumedMessage", 19, 7, 0)
BridgePausedA1 == Ev("EthBridgePausedMessage", 161, 0, 0)
BridgeResumedA3 == Ev("EthBridgeResumedMessage", 163, 0, 0)

ScenarioEvent ==
    { BridgeStarted01, GuestAccountPaused10, HostRelay11, GuestApprovedRelay12,
      GuestAccountResumed13, BridgePausedA1, BridgeResumedA3 }

ReadDuplicate == \E e \in Event : Len(history) < MaxEvents /\ ReceiveDuplicate(e)
ReadActive == \E e \in Event : Len(history) < MaxEvents /\ ReceiveActive(e)
ReadInactive == \E e \in Event : Len(history) < MaxEvents /\ ReceiveInactive(e)

Next == ReadDuplicate \/ ReadActive \/ ReadInactive

Spec == Init /\ [][Next]_vars

ScenarioReadDuplicate ==
    \E e \in ScenarioEvent : Len(history) < MaxScenario /\ ReceiveDuplicate(e)
ScenarioReadActive ==
    \E e \in ScenarioEvent : Len(history) < MaxScenario /\ ReceiveActive(e)
ScenarioReadInactive ==
    \E e \in ScenarioEvent : Len(history) < MaxScenario /\ ReceiveInactive(e)

ScenarioNext == ScenarioReadDuplicate \/ ScenarioReadActive \/ ScenarioReadInactive

SpecScenario == Init /\ [][ScenarioNext]_vars

\* ------------------------------------------------------------------------
\* The Controller and an Executor that may die: the events of the scenario
\* alphabet in any order, and the end of the Executor's thread at any
\* moment.

MaxOutbox == 4

OutboxReadDuplicate ==
    \E e \in ScenarioEvent : Len(history) < MaxOutbox /\ ReceiveDuplicate(e)
OutboxReadActive ==
    \E e \in ScenarioEvent : Len(history) < MaxOutbox /\ ReceiveActive(e)
OutboxReadInactive ==
    \E e \in ScenarioEvent : Len(history) < MaxOutbox /\ ReceiveInactive(e)
OutboxSendFailed ==
    \E e \in ScenarioEvent : Len(history) < MaxOutbox /\ SendFailed(e)

OutboxNext ==
    \/ OutboxReadDuplicate
    \/ OutboxReadActive
    \/ OutboxReadInactive
    \/ OutboxSendFailed
    \/ ExecutorDies

SpecOutbox == Init /\ [][OutboxNext]_vars

\* ------------------------------------------------------------------------
\* The Controller through pauses and stops of the bridge: the events of
\* scenario S4 of the specification with the message ids given there
\* (0xA1, 0xA2, 0xA3), an EthBridgeStoppedMessage, the BridgeStarted event
\* 0x01 that brings the Controller to Active and a second BridgeStarted
\* event that starts a stopped bridge again, in any order.

MaxPause == 5

HostRelayA2 == Ev("EthRelayMessage", 162, 7, 0)
BridgeStoppedA4 == Ev("EthBridgeStoppedMessage", 164, 7, 0)
BridgeStartedA5 == Ev("EthBridgeStartedMessage", 165, 7, 0)

PauseEvent ==
    { BridgeStarted01, BridgePausedA1, HostRelayA2, BridgeResumedA3,
      BridgeStoppedA4, BridgeStartedA5 }

PauseReadDuplicate ==
    \E e \in PauseEvent : Len(history) < MaxPause /\ ReceiveDuplicate(e)
PauseReadActive ==
    \E e \in PauseEvent : Len(history) < MaxPause /\ ReceiveActive(e)
PauseReadInactive ==
    \E e \in PauseEvent : Len(history) < MaxPause /\ ReceiveInactive(e)

PauseNext == PauseReadDuplicate \/ PauseReadActive \/ PauseReadInactive

SpecPause == Init /\ [][PauseNext]_vars

\* ------------------------------------------------------------------------
\* The ControllerStorage on its own: its public methods called in any
\* order, as mod tests of controller_storage.rs calls them.  The events are
\* those of the tests (event of event_queue_tests, event and event2 of
\* blocking_and_unblocking_account_tests) and a second
\* EthBridgePausedMessage that has the id of the first one and another
\* block number.

MaxQueued == 3

PausedEvent == Ev("EthBridgePausedMessage", 0, 0, 0)
PausedEventLater == Ev("EthBridgePausedMessage", 0, 0, 1)
RelayEvent == Ev("EthRelayMessage", 0, 7, 0)
RelayEvent2 == Ev("EthRelayMessage", 1, 7, 0)

StorageEvent ==
    {PausedEvent, PausedEventLater, RelayEvent, RelayEvent2}

\* the number of events the queues of the storage hold
RECURSIVE QueuedInAccounts(_, _)
QueuedInAccounts(st, keys) ==
    IF keys = {} THEN 0
    ELSE LET a == CHOOSE x \in keys : TRUE
         IN Len(st.events_of_blocked_accounts[a])
            + QueuedInAccounts(st, keys \ {a})

Queued(st) ==
    Len(st.events_queue)
    + QueuedInAccounts(st, DOMAIN st.events_of_blocked_accounts)

\* A call sets result to what it returns, or to what it logs when it
\* returns nothing and takes the branch that logs: "is already blocked" of
\* block_account, "can not found account queue" of unblock_account and of
\* put_event_to_account_queue.

\* a call of a method that takes an event
CallWithEvent(op, e, r, st) ==
    /\ call.op # "panicked"
    /\ call' = [op |-> op, address |-> None, n |-> (call.n + 1) % 2]
    /\ event' = e
    /\ result' = r
    /\ storage' = st
    /\ deferred_events' = <<>>
    /\ UNCHANGED <<status, executor_tx, blocked_at_send, history,
                   listener_vars, daemon_vars>>

\* a call of a method that takes an address
CallWithAddress(op, a, r, st) ==
    /\ call.op # "panicked"
    /\ call' = [op |-> op, address |-> a, n |-> (call.n + 1) % 2]
    /\ event' = NoEvent
    /\ result' = r
    /\ storage' = st
    /\ deferred_events' = <<>>
    /\ UNCHANGED <<status, executor_tx, blocked_at_send, history,
                   listener_vars, daemon_vars>>

\* storage.put_event(&event)
CallPutEvent ==
    \E e \in StorageEvent :
        CallWithEvent("put_event", e, put_event_result(storage, e),
                      put_event(storage, e))

\* storage.put_event_to_queue(event)
CallPutEventToQueue ==
    \E e \in StorageEvent :
        /\ Queued(storage) < MaxQueued
        /\ CallWithEvent("put_event_to_queue", e, "None",
                         put_event_to_queue(storage, e))

\* storage.iter_events_queue().cloned().collect::<Vec<_>>()
CallIterEventsQueue ==
    /\ call.op # "panicked"
    /\ call' = [op |-> "iter_events_queue", address |-> None,
                n |-> (call.n + 1) % 2]
    /\ event' = NoEvent
    /\ result' = "None"
    /\ deferred_events' = iter_events_queue(storage)
    /\ UNCHANGED <<storage, status, executor_tx, blocked_at_send, history,
                   listener_vars, daemon_vars>>

\* storage.clear_events_queue()
CallClearEventsQueue ==
    /\ call.op # "panicked"
    /\ call' = [op |-> "clear_events_queue", address |-> None,
                n |-> (call.n + 1) % 2]
    /\ event' = NoEvent
    /\ result' = "None"
    /\ storage' = clear_events_queue(storage)
    /\ deferred_events' = <<>>
    /\ UNCHANGED <<status, executor_tx, blocked_at_send, history,
                   listener_vars, daemon_vars>>

\* storage.block_account(address)
CallBlockAccount ==
    \E a \in Address :
        CallWithAddress("block_account", a,
                        IF is_account_blocked(storage, a)
                        THEN "is already blocked" ELSE "None",
                        block_account(storage, a))

\* storage.unblock_account(address)
CallUnblockAccount ==
    \E a \in Address :
        CallWithAddress("unblock_account", a,
                        IF is_account_blocked(storage, a)
                        THEN "None" ELSE "can not found account queue",
                        unblock_account(storage, a))

\* storage.is_account_blocked(address)
CallIsAccountBlocked ==
    \E a \in Address \cup {None} :
        CallWithAddress("is_account_blocked", a,
                        IF is_account_blocked(storage, a) THEN "true"
                                                          ELSE "false",
                        storage)

\* storage.put_event_to_account_queue(event): the call panics in
\* sender().expect(..) when the event has no sender
CallPutEventToAccountQueue ==
    \E e \in StorageEvent :
        /\ Queued(storage) < MaxQueued
        /\ IF sender(e) = None
           THEN CallWithEvent("panicked", e, "None", storage)
           ELSE CallWithEvent("put_event_to_account_queue", e,
                              IF is_account_blocked(storage, sender(e))
                              THEN "None" ELSE "can not found account queue",
                              put_event_to_account_queue(storage, e))

StorageNext ==
    \/ CallPutEvent
    \/ CallPutEventToQueue
    \/ CallIterEventsQueue
    \/ CallClearEventsQueue
    \/ CallBlockAccount
    \/ CallUnblockAccount
    \/ CallIsAccountBlocked
    \/ CallPutEventToAccountQueue

SpecStorage == Init /\ [][StorageNext]_vars

\* ------------------------------------------------------------------------
\* The EventListener of src/src/graph_node_event_listener.rs.

MaxTicks == 2

\* the records of a set, by ascending eth_block_number
RECURSIVE Ascending(_)
Ascending(records) ==
    IF records = {} THEN <<>>
    ELSE LET r == CHOOSE x \in records :
                      \A y \in records :
                          x.eth_block_number <= y.eth_block_number
         IN <<r>> \o Ascending(records \ {r})

\* the query res/graph_node_all_*.graphql of a category: the records of
\* the category above the block number sent in the query
all_query(category, offset) ==
    Ascending({r \in graph_node[category] : r.eth_block_number > offset})

\* the query res/graph_node_max_block_number_of_*.graphql of a category:
\* of the records above the block number sent in the query, the one that
\* has the highest block number
max_block_number_query(category, offset) ==
    LET above == all_query(category, offset)
    IN IF above = <<>> THEN <<>> ELSE <<above[Len(above)]>>

\* the query res/graph_node_messages_by_status.graphql
messages_by_status_query(st, eth_block_number) ==
    Ascending({r \in graph_node.messages :
                   /\ r.status = st
                   /\ r.eth_block_number > eth_block_number})

\* the query res/graph_node_all_accounts.graphql, for the accounts that
\* are BLOCKED since begin_of_this_day()
all_accounts_query == Ascending(graph_node.accounts)

\* impl From<&all_messages::AllMessagesMessages> for Event
message_event(r) ==
    CASE r.status = "PENDING" /\ r.direction = "ETH2SUB" ->
            Ev("EthRelayMessage", r.id, 7, r.eth_block_number)
      [] r.status = "APPROVED" /\ r.direction = "ETH2SUB" ->
            Ev("EthApprovedRelayMessage", r.id, 7, r.eth_block_number)
      [] r.status = "CANCELED" /\ r.direction = "ETH2SUB" ->
            Ev("EthRevertMessage", r.id, 7, r.eth_block_number)
      [] r.status = "WITHDRAW" /\ r.direction = "SUB2ETH" ->
            Ev("EthWithdrawMessage", r.id, 0, r.eth_block_number)
      [] OTHER ->
            Ev("EthApprovedRelayMessage", r.id, 7, r.eth_block_number)

\* a decoder of the records of messages_by_status that looks at the status
\* only
message_by_status_event_by_status_only(r) ==
    CASE r.status = "PENDING" ->
            Ev("EthRelayMessage", r.id, 7, r.eth_block_number)
      [] r.status = "CANCELED" ->
            Ev("EthRevertMessage", r.id, 7, r.eth_block_number)
      [] r.status = "WITHDRAW" ->
            Ev("EthWithdrawMessage", r.id, 0, r.eth_block_number)
      [] OTHER ->
            Ev("EthApprovedRelayMessage", r.id, 7, r.eth_block_number)

\* impl From<&messages_by_status::MessagesByStatusMessages> for Event
message_by_status_event(r) ==
    CASE r.status = "PENDING" /\ r.direction = "ETH2SUB" ->
            Ev("EthRelayMessage", r.id, 7, r.eth_block_number)
      [] r.status = "APPROVED" /\ r.direction = "ETH2SUB" ->
            Ev("EthApprovedRelayMessage", r.id, 7, r.eth_block_number)
      [] r.status = "CANCELED" /\ r.direction = "ETH2SUB" ->
            Ev("EthRevertMessage", r.id, 7, r.eth_block_number)
      [] r.status = "WITHDRAW" /\ r.direction = "SUB2ETH" ->
            Ev("EthWithdrawMessage", r.id, 0, r.eth_block_number)
      [] OTHER ->
            Ev("EthApprovedRelayMessage", r.id, 7, r.eth_block_number)

\* impl From<&all_bridge_messages::AllBridgeMessagesBridgeMessages>
bridge_message_event(r) ==
    CASE r.status = "PAUSE" ->
            Ev("EthBridgePausedMessage", r.id, 0, r.eth_block_number)
      [] r.status = "RESUME" ->
            Ev("EthBridgeResumedMessage", r.id, 0, r.eth_block_number)
      [] r.status = "START" ->
            Ev("EthBridgeStartedMessage", r.id, 7, r.eth_block_number)
      [] OTHER ->
            Ev("EthBridgeStoppedMessage", r.id, 7, r.eth_block_number)

\* impl From<&all_account_messages::AllAccountMessagesAccountMessages>
account_message_event(r) ==
    CASE r.status = "PAUSE" /\ r.direction = "ETH2SUB" ->
            Ev("EthHostAccountPausedMessage", r.id, 7, r.eth_block_number)
      [] r.status = "RESUME" /\ r.direction = "ETH2SUB" ->
            Ev("EthHostAccountResumedMessage", r.id, 7, r.eth_block_number)
      [] r.status = "PAUSE" /\ r.direction = "SUB2ETH" ->
            Ev("EthGuestAccountPausedMessage", r.id, 7, r.eth_block_number)
      [] OTHER ->
            Ev("EthGuestAccountResumedMessage", r.id, 7, r.eth_block_number)

\* impl From<&all_accounts::AllAccountsAccounts> for Event; the kind of
\* the account is the direction field of the record
account_event(r) ==
    IF r.direction = "ETH"
    THEN Ev("EthHostAccountPausedMessage", r.id, 7, r.eth_block_number)
    ELSE Ev("EthGuestAccountPausedMessage", r.id, 7, r.eth_block_number)

\* impl From<&all_limit_messages::AllLimitMessagesLimitMessages>
limit_message_event(r) == Ev("EthSetNewLimits", r.id, 0, r.eth_block_number)

\* messages.iter().map(Into::into).collect() of a category
into_events(category, records) ==
    [ i \in DOMAIN records |->
        CASE category = "messages" -> message_event(records[i])
          [] category = "messages_by_status" ->
                message_by_status_event(records[i])
          [] category = "bridge_messages" -> bridge_message_event(records[i])
          [] category = "account_messages" ->
                account_message_event(records[i])
          [] category = "limit_messages" -> limit_message_event(records[i])
          [] category = "accounts" -> account_event(records[i]) ]

\* the events in the order they were collected, without the sort
sort_by_block_number_unsorted(events) == events

\* events.sort_by(|a, b| a.block_number().cmp(&b.block_number())): the
\* sort is stable
RECURSIVE sort_by_block_number(_)
sort_by_block_number(events) ==
    IF events = <<>> THEN <<>>
    ELSE LET sorted == sort_by_block_number(SubSeq(events, 1, Len(events) - 1))
             e == events[Len(events)]
             before == SelectSeq(sorted,
                                 LAMBDA x : block_number(x) <= block_number(e))
             after == SelectSeq(sorted,
                                LAMBDA x : block_number(x) > block_number(e))
         IN before \o <<e>> \o after

\* get_max_block_number_of_messages and its three siblings, when the
\* request succeeds
get_max_block_number(category) ==
    LET messages == max_block_number_query(category, offsets[category])
    IN IF messages = <<>>
       THEN offsets[category]
       ELSE messages[1].eth_block_number

\* the highest block number of a response that is not empty
max_eth_block_number(messages) ==
    CHOOSE b \in {messages[i].eth_block_number : i \in DOMAIN messages} :
        \A i \in DOMAIN messages : messages[i].eth_block_number <= b

\* the concatenation of the sequences of a sequence (flatten, append)
RECURSIVE Flatten(_)
Flatten(seqs) ==
    IF seqs = <<>> THEN <<>> ELSE Head(seqs) \o Flatten(Tail(seqs))

\* EventListener::handle_blocked_accounts; ok: the request succeeded
handle_blocked_accounts ==
    /\ listener_pc.fn = "handle_blocked_accounts"
    /\ \E ok \in BOOLEAN :
        LET events == IF ok THEN into_events("accounts", all_accounts_query)
                            ELSE <<>>
        IN /\ controller_tx' = controller_tx \o events
           /\ last_events' = events
    /\ listener_pc' = [listener_pc EXCEPT !.fn = "set_offsets"]
    /\ UNCHANGED <<graph_node, offsets, controller_vars, storage_vars,
                   daemon_vars>>

\* EventListener::set_offsets; ok: the requests that succeeded
set_offsets ==
    /\ listener_pc.fn = "set_offsets"
    /\ \E ok \in [Categories -> BOOLEAN] :
        offsets' = [c \in Categories |->
                        IF ok[c] THEN get_max_block_number(c) ELSE offsets[c]]
    /\ listener_pc' = [listener_pc EXCEPT !.fn = "handle_unfinalized_events"]
    /\ last_events' = <<>>
    /\ UNCHANGED <<graph_node, controller_tx, controller_vars, storage_vars,
                   daemon_vars>>

\* EventListener::handle_unfinalized_events; ok: the requests that
\* succeeded, by position in UNFINALIZED_STATUSES
handle_unfinalized_events ==
    /\ listener_pc.fn = "handle_unfinalized_events"
    /\ \E ok \in [DOMAIN UNFINALIZED_STATUSES -> BOOLEAN] :
        LET get_messages_by_status(i) ==
                IF ok[i]
                THEN into_events("messages_by_status",
                         messages_by_status_query(UNFINALIZED_STATUSES[i], 0))
                ELSE <<>>
            events == sort_by_block_number(Flatten(
                          [i \in DOMAIN UNFINALIZED_STATUSES |->
                              get_messages_by_status(i)]))
        IN /\ controller_tx' = controller_tx \o events
           /\ last_events' = events
    /\ listener_pc' = [listener_pc EXCEPT !.fn = "handle_last_events"]
    /\ UNCHANGED <<graph_node, offsets, controller_vars, storage_vars,
                   daemon_vars>>

\* one pass of the loop where a request that fails ends the pass: nothing
\* is sent and no offset moves unless all four requests succeeded
handle_last_events_all_or_nothing ==
    /\ listener_pc.fn = "handle_last_events"
    /\ listener_pc.ticks < MaxTicks
    /\ \E ok \in BOOLEAN :
        LET response(c) == IF ok THEN all_query(c, offsets[c]) ELSE <<>>
            events == sort_by_block_number(Flatten(
                          [i \in DOMAIN CategoryOrder |->
                              into_events(CategoryOrder[i],
                                          response(CategoryOrder[i]))]))
        IN /\ offsets' = [c \in Categories |->
                            IF response(c) = <<>>
                            THEN offsets[c]
                            ELSE max_eth_block_number(response(c))]
           /\ controller_tx' = controller_tx \o events
           /\ last_events' = events
    /\ listener_pc' = [listener_pc EXCEPT !.ticks = @ + 1]
    /\ UNCHANGED <<graph_node, controller_vars, storage_vars,
                   daemon_vars>>

\* one pass of the loop where the offset of a category is the highest
\* block number of its response or, for an empty response, 0
handle_last_events_offset_or_zero ==
    /\ listener_pc.fn = "handle_last_events"
    /\ listener_pc.ticks < MaxTicks
    /\ \E ok \in [Categories -> BOOLEAN] :
        LET response(c) == IF ok[c] THEN all_query(c, offsets[c]) ELSE <<>>
            events == sort_by_block_number(Flatten(
                          [i \in DOMAIN CategoryOrder |->
                              into_events(CategoryOrder[i],
                                          response(CategoryOrder[i]))]))
        IN /\ offsets' = [c \in Categories |->
                            IF response(c) = <<>>
                            THEN 0
                            ELSE max_eth_block_number(response(c))]
           /\ controller_tx' = controller_tx \o events
           /\ last_events' = events
    /\ listener_pc' = [listener_pc EXCEPT !.ticks = @ + 1]
    /\ UNCHANGED <<graph_node, controller_vars, storage_vars,
                   daemon_vars>>

\* EventListener::handle_last_events, one pass of the loop of start; ok:
\* the requests that succeeded
handle_last_events ==
    /\ listener_pc.fn = "handle_last_events"
    /\ listener_pc.ticks < MaxTicks
    /\ \E ok \in [Categories -> BOOLEAN] :
        LET response(c) == IF ok[c] THEN all_query(c, offsets[c]) ELSE <<>>
            events == sort_by_block_number(Flatten(
                          [i \in DOMAIN CategoryOrder |->
                              into_events(CategoryOrder[i],
                                          response(CategoryOrder[i]))]))
        IN /\ offsets' = [c \in Categories |->
                            IF response(c) = <<>>
                            THEN offsets[c]
                            ELSE max_eth_block_number(response(c))]
           /\ controller_tx' = controller_tx \o events
           /\ last_events' = events
    /\ listener_pc' = [listener_pc EXCEPT !.ticks = @ + 1]
    /\ UNCHANGED <<graph_node, controller_vars, storage_vars,
                   daemon_vars>>

\* spawn: the EventListener is built for a store that holds any of the
\* contents above
InitListener ==
    /\ status = "NotReady"
    /\ storage = NewStorage
    /\ executor_tx = <<>>
    /\ blocked_at_send = <<>>
    /\ event = NoEvent
    /\ result = "None"
    /\ deferred_events = <<>>
    /\ history = <<>>
    /\ call = NoCall
    /\ graph_node \in GraphNode
    /\ NewEventListener
    /\ NewDaemon

ListenerNext ==
    \/ handle_blocked_accounts
    \/ set_offsets
    \/ handle_unfinalized_events
    \/ handle_last_events

SpecListener == InitListener /\ [][ListenerNext]_vars

\* ------------------------------------------------------------------------
\* The EventListener on a store that grows: while the loop of start runs,
\* the indexer adds records to the store.  The block number of an added
\* record may be above the offset of its category, equal to it (a record of
\* the block the last response ended with) or below it.

MaxIndexed == 2

\* the records the indexer may add, by category
LateRecords ==
    [ messages |-> { Rec(17, 7, "PENDING", "ETH2SUB"),
                     Rec(19, 9, "PENDING", "ETH2SUB"),
                     Rec(21, 11, "PENDING", "ETH2SUB") },
      bridge_messages |-> { Rec(18, 8, "RESUME", "") },
      account_messages |-> {},
      limit_messages |-> {} ]

\* the records of a category the indexer has added
Indexed(category) == graph_node[category] \cap LateRecords[category]

\* the indexer adds a record to a category
index_record ==
    /\ listener_pc.fn = "handle_last_events"
    /\ Cardinality(UNION {Indexed(c) : c \in Categories}) < MaxIndexed
    /\ \E c \in Categories : \E r \in LateRecords[c] \ graph_node[c] :
           graph_node' = [graph_node EXCEPT ![c] = @ \cup {r}]
    /\ UNCHANGED <<offsets, listener_pc, controller_tx, last_events,
                   controller_vars, storage_vars,
                   daemon_vars>>

\* the store when the EventListener starts: no record, or the transfer
\* message of block 9 and the bridge message of block 6
InitIndexing ==
    /\ status = "NotReady"
    /\ storage = NewStorage
    /\ executor_tx = <<>>
    /\ blocked_at_send = <<>>
    /\ event = NoEvent
    /\ result = "None"
    /\ deferred_events = <<>>
    /\ history = <<>>
    /\ call = NoCall
    /\ graph_node \in
         { EmptyGraphNode,
           [EmptyGraphNode EXCEPT
              !.messages = {Rec(9, 9, "CONFIRMED", "ETH2SUB")},
              !.bridge_messages = {Rec(6, 6, "PAUSE", "")}] }
    /\ NewEventListener
    /\ NewDaemon

IndexingNext ==
    \/ handle_blocked_accounts
    \/ set_offsets
    \/ handle_unfinalized_events
    \/ handle_last_events
    \/ index_record

SpecIndexing == InitIndexing /\ [][IndexingNext]_vars

\* ------------------------------------------------------------------------
\* The two decoders of a transfer message, applied to one record of any
\* status and direction the schema has: the record is the only one of the
\* store, event holds what the decoder of all_messages gives and
\* last_events what the decoder of messages_by_status gives.

DecodeStatuses ==
    {"PENDING", "WITHDRAW", "APPROVED", "CANCELED", "CONFIRMED",
     "CONFIRMED_WITHDRAW"}
DecodeDirections == {"ETH2SUB", "SUB2ETH"}
DecodeBlocks == {0, 5, 9}

DecodeRecords ==
    { Rec(i, b, s, d) : i \in MessageIds, b \in DecodeBlocks,
                        s \in DecodeStatuses, d \in DecodeDirections }

InitDecode ==
    /\ status = "NotReady"
    /\ storage = NewStorage
    /\ executor_tx = <<>>
    /\ blocked_at_send = <<>>
    /\ event = NoEvent
    /\ result = "None"
    /\ deferred_events = <<>>
    /\ history = <<>>
    /\ call = NoCall
    /\ graph_node \in { [EmptyGraphNode EXCEPT !.messages = {r}] :
                          r \in DecodeRecords }
    /\ NewEventListener
    /\ NewDaemon

\* Event::from(&all_messages::AllMessagesMessages)
from_all_messages ==
    /\ event = NoEvent
    /\ \E r \in graph_node.messages : event' = message_event(r)
    /\ UNCHANGED <<result, storage, call, controller_vars, listener_vars,
                   daemon_vars>>

\* Event::from(&messages_by_status::MessagesByStatusMessages)
from_messages_by_status ==
    /\ last_events = <<>>
    /\ \E r \in graph_node.messages :
           last_events' = <<message_by_status_event(r)>>
    /\ UNCHANGED <<graph_node, offsets, listener_pc, controller_tx,
                   controller_vars, storage_vars,
                   daemon_vars>>

DecodeNext ==
    \/ from_all_messages
    \/ from_messages_by_status

SpecDecode == InitDecode /\ [][DecodeNext]_vars

\* ------------------------------------------------------------------------
\* The Executor of src/src/executor.rs.  It reads the outbox in order; for
\* every event it builds at most one transaction, for the substrate chain
\* or for the ethereum chain, and spawns a future that submits it.  The
\* future of an ethereum transaction asks the node for the transaction
\* count of the validator, signs the transaction with that nonce and sends
\* it; the futures run in any order.

MaxSent == 2

\* what a handler submits: the chain and the method
Operation(chain, method) == [chain |-> chain, method |-> method]

\* an arm of the match that calls no handler
Ignored == Operation("none", "none")

\* the arm of Event::OracleMessage, the variant oracle.rs sends
oracle_operation == Operation("substrate", "record_price")

\* a dispatch that treats the account events of the substrate chain as the
\* account events of the ethereum chain are treated
executor_operation_accounts_ignored(e) ==
    CASE e.kind \in {"EthBridgePausedMessage", "EthBridgeStoppedMessage"} ->
            Operation("substrate", "pause_bridge")
      [] e.kind \in {"EthBridgeResumedMessage", "EthBridgeStartedMessage"} ->
            Operation("substrate", "resume_bridge")
      [] e.kind = "EthRelayMessage" -> Operation("ethereum", "approveTransfer")
      [] e.kind = "EthApprovedRelayMessage" -> Operation("substrate", "mint")
      [] e.kind = "EthRevertMessage" ->
            Operation("substrate", "cancel_transfer")
      [] e.kind = "EthWithdrawMessage" ->
            Operation("substrate", "confirm_transfer")
      [] e.kind = "EthSetNewLimits" -> Operation("substrate", "update_limits")
      [] e.kind = "EthValidatorsListMessage" ->
            Operation("substrate", "update_validator_list")
      [] e.kind = "SubRelayMessage" ->
            Operation("substrate", "approve_transfer")
      [] e.kind = "SubApprovedRelayMessage" ->
            Operation("ethereum", "withdrawTransfer")
      [] e.kind = "SubBurnedMessage" ->
            Operation("ethereum", "confirmWithdrawTransfer")
      [] e.kind = "SubMintedMessage" ->
            Operation("ethereum", "confirmTransfer")
      [] e.kind = "SubCancellationConfirmedMessage" ->
            Operation("ethereum", "confirmCancelTransfer")
      [] e.kind = "OracleMessage" -> oracle_operation
      [] OTHER -> Ignored

\* Executor::start, the match on the event
executor_operation(e) ==
    CASE e.kind = "EthBridgePausedMessage" ->
            Operation("substrate", "pause_bridge")
      [] e.kind = "EthBridgeResumedMessage" ->
            Operation("substrate", "resume_bridge")
      [] e.kind = "EthBridgeStartedMessage" ->
            Operation("substrate", "resume_bridge")
      [] e.kind = "EthBridgeStoppedMessage" ->
            Operation("substrate", "pause_bridge")
      [] e.kind = "EthRelayMessage" -> Operation("ethereum", "approveTransfer")
      [] e.kind = "EthApprovedRelayMessage" -> Operation("substrate", "mint")
      [] e.kind = "EthRevertMessage" ->
            Operation("substrate", "cancel_transfer")
      [] e.kind = "EthWithdrawMessage" ->
            Operation("substrate", "confirm_transfer")
      [] e.kind = "EthHostAccountPausedMessage" -> Ignored
      [] e.kind = "EthHostAccountResumedMessage" -> Ignored
      [] e.kind = "EthGuestAccountPausedMessage" -> Ignored
      [] e.kind = "EthGuestAccountResumedMessage" -> Ignored
      [] e.kind = "EthSetNewLimits" -> Operation("substrate", "update_limits")
      [] e.kind = "EthValidatorsListMessage" ->
            Operation("substrate", "update_validator_list")
      [] e.kind = "SubRelayMessage" ->
            Operation("substrate", "approve_transfer")
      [] e.kind = "SubApprovedRelayMessage" ->
            Operation("ethereum", "withdrawTransfer")
      [] e.kind = "SubBurnedMessage" ->
            Operation("ethereum", "confirmWithdrawTransfer")
      [] e.kind = "SubMintedMessage" ->
            Operation("ethereum", "confirmTransfer")
      [] e.kind = "SubCancellationConfirmedMessage" ->
            Operation("ethereum", "confirmCancelTransfer")
      [] e.kind = "SubAccountPausedMessage" ->
            Operation("ethereum", "setPausedStatusForGuestAddress")
      [] e.kind = "SubAccountResumedMessage" ->
            Operation("ethereum", "setResumedStatusForGuestAddress")
      [] e.kind = "OracleMessage" -> oracle_operation

\* the event oracle.rs sends: Event::OracleMessage with H256::default()
OracleEvent == Ev("OracleMessage", 0, 0, 0)

\* the events the outbox may hold: one of every variant
ExecutorEvent ==
    { Ev(k, 1, 7, 0) : k \in EthAddressKinds \cup SubAddressKinds }
    \cup { Ev(k, 1, 0, 0) : k \in NoAddressKinds }
    \cup { OracleEvent }

\* the Controller, Active, has sent up to MaxSent events, no event twice;
\* the Executor reads nothing of the Controller but the outbox
InitExecutor ==
    /\ status = "Active"
    /\ storage = NewStorage
    /\ executor_tx \in UNION { [1..n -> ExecutorEvent] : n \in 0..MaxSent }
    /\ \A i, j \in DOMAIN executor_tx : i # j => executor_tx[i] # executor_tx[j]
    /\ blocked_at_send = [i \in DOMAIN executor_tx |-> FALSE]
    /\ event = NoEvent
    /\ result = "None"
    /\ deferred_events = <<>>
    /\ history = <<>>
    /\ call = NoCall
    /\ graph_node = EmptyGraphNode
    /\ NewEventListener
    /\ NewDaemon

\* the future a handler of an ethereum transaction spawns; nonce is -1
\* until transaction_count answered
Task(e, method) ==
    [message_id |-> e.id, method |-> method, pc |-> "transaction_count",
     nonce |-> -1]

\* Executor::start, the closure of executor_rx.iter().for_each
ExecutorReceive ==
    /\ executor_thread = "running"
    /\ Len(operations) < Len(executor_tx)
    /\ LET e == executor_tx[Len(operations) + 1]
           op == executor_operation(e)
       IN /\ operations' = Append(operations,
                                  [event |-> e, chain |-> op.chain,
                                   method |-> op.method])
          /\ tasks' = IF op.chain = "ethereum"
                      THEN Append(tasks, Task(e, op.method))
                      ELSE tasks
    /\ UNCHANGED <<controller_vars, storage_vars, listener_vars,
                   ethereum_event_listener, controller_thread,
                   executor_thread, web3>>

\* web3.eth().transaction_count(config.eth_validator_address, None) of a
\* spawned future: the node answers with the count of the transactions of
\* the validator, or the request fails and map_err logs "can not get nonce"
transaction_count ==
    \E i \in DOMAIN tasks : \E ok \in BOOLEAN :
        /\ tasks[i].pc = "transaction_count"
        /\ tasks' = [tasks EXCEPT ![i] =
                        IF ok
                        THEN [@ EXCEPT !.pc = "send_raw_transaction",
                                       !.nonce = web3.transaction_count]
                        ELSE [@ EXCEPT !.pc = "done"]]
        /\ UNCHANGED <<controller_vars, storage_vars, listener_vars,
                       ethereum_event_listener, controller_thread,
                       executor_thread, operations, web3>>

\* web3.eth().send_raw_transaction of the transaction built with the nonce
\* read: the node takes a transaction whose nonce is the count of the
\* transactions of the validator, and refuses any other
send_raw_transaction ==
    \E i \in DOMAIN tasks :
        /\ tasks[i].pc = "send_raw_transaction"
        /\ tasks' = [tasks EXCEPT ![i].pc = "done"]
        /\ web3' = IF tasks[i].nonce = web3.transaction_count
                   THEN [web3 EXCEPT
                           !.transaction_count = @ + 1,
                           !.transactions =
                               Append(@, [message_id |-> tasks[i].message_id,
                                          method |-> tasks[i].method,
                                          nonce |-> tasks[i].nonce])]
                   ELSE web3
        /\ UNCHANGED <<controller_vars, storage_vars, listener_vars,
                       ethereum_event_listener, controller_thread,
                       executor_thread, operations>>

ExecutorNext ==
    \/ ExecutorReceive
    \/ transaction_count
    \/ send_raw_transaction

SpecExecutor == InitExecutor /\ [][ExecutorNext]_vars

\* ------------------------------------------------------------------------
\* The daemon after a restart: the EventListener of the indexed store
\* starts on a store that holds blocked accounts and an unfinalized transfer
\* message, the EventListener of ethereum_event_listener.rs reads the status
\* of the bridge contract, the substrate listener reports events, and the
\* Controller, NotReady, reads the inbox.  A producer sends its events one
\* by one, so an event of another producer may land between two events of
\* a batch: it is put at any place of the part of the inbox that the
\* Controller has not read yet.

\* the status codes the bridge contract may return
BridgeStatusCodes == {0, 1, 2}

\* a mapping of the status codes that takes every code but 0 for stopped
build_bridge_status_event_stopped_unless_0(bridge_status) ==
    CASE bridge_status = 0 -> Ev("EthBridgeStartedMessage", 0, 0, 0)
      [] OTHER -> Ev("EthBridgeStoppedMessage", 0, 0, 0)

\* build_bridge_status_event of ethereum_event_listener.rs; the variants
\* are built with MESSAGE_ID and ETH_BLOCK_NUMBER only
build_bridge_status_event(bridge_status) ==
    CASE bridge_status = 0 -> Ev("EthBridgeStartedMessage", 0, 0, 0)
      [] bridge_status = 1 -> Ev("EthBridgePausedMessage", 0, 0, 0)
      [] OTHER -> Ev("EthBridgeStoppedMessage", 0, 0, 0)

\* the event the substrate listener reports: the substrate account was
\* resumed on the substrate chain
SubstrateEvent == { Ev("SubAccountResumedMessage", 31, 7, 0) }

\* the stores of a restart: the two blocked accounts, the PENDING transfer
\* message of block 5 whose sender is the ethereum account, and possibly
\* the account message that resumed the ethereum account
RestartStores ==
    { [EmptyGraphNode EXCEPT
         !.accounts = { Rec(2, 2, "BLOCKED", "ETH"),
                        Rec(1, 1, "BLOCKED", "SUB") },
         !.messages = {Rec(5, 5, "PENDING", "ETH2SUB")},
         !.account_messages = m] :
        m \in SUBSET {Rec(4, 4, "RESUME", "ETH2SUB")} }

InitRestart ==
    /\ status = "NotReady"
    /\ storage = NewStorage
    /\ executor_tx = <<>>
    /\ blocked_at_send = <<>>
    /\ event = NoEvent
    /\ result = "None"
    /\ deferred_events = <<>>
    /\ history = <<>>
    /\ call = NoCall
    /\ graph_node \in RestartStores
    /\ NewEventListener
    /\ ethereum_event_listener = [pc |-> "start", sent |-> <<>>]
    /\ controller_thread = "running"
    /\ executor_thread = "running"
    /\ operations = <<>>
    /\ tasks = <<>>
    /\ web3 \in { [bridge_status |-> c, transaction_count |-> 0,
                   transactions |-> <<>>] : c \in BridgeStatusCodes }

\* the inbox with an event put at the place p
InsertAt(inbox, p, e) ==
    SubSeq(inbox, 1, p - 1) \o <<e>> \o SubSeq(inbox, p, Len(inbox))

\* the places of the inbox the Controller has not read yet, the end included
Unread == (Len(history) + 1)..(Len(controller_tx) + 1)

\* EventListener::start of ethereum_event_listener.rs: the status is read
\* and its event sent, or the read fails and expect panics
ethereum_event_listener_start ==
    /\ ethereum_event_listener.pc = "start"
    /\ \E ok \in BOOLEAN :
        IF ok
        THEN LET e == build_bridge_status_event(web3.bridge_status)
             IN /\ \E p \in Unread :
                       controller_tx' = InsertAt(controller_tx, p, e)
                /\ ethereum_event_listener' = [pc |-> "loop", sent |-> <<e>>]
        ELSE /\ controller_tx' = controller_tx
             /\ ethereum_event_listener' =
                    [ethereum_event_listener EXCEPT !.pc = "panicked"]
    /\ UNCHANGED <<graph_node, offsets, listener_pc, last_events,
                   controller_vars, storage_vars, controller_thread,
                   executor_thread, operations, tasks, web3>>

\* EventHandler::handle_bridge_event of substrate_event_listener.rs
handle_bridge_event ==
    /\ \E e \in SubstrateEvent : \E p \in Unread :
          /\ \A i \in DOMAIN controller_tx : controller_tx[i] # e
          /\ controller_tx' = InsertAt(controller_tx, p, e)
    /\ UNCHANGED <<graph_node, offsets, listener_pc, last_events,
                   controller_vars, storage_vars, daemon_vars>>

\* Controller::start reads the next event of the inbox
InboxReadDuplicate ==
    /\ Len(history) < Len(controller_tx)
    /\ ReceiveDuplicate(controller_tx[Len(history) + 1])
InboxReadActive ==
    /\ Len(history) < Len(controller_tx)
    /\ ReceiveActive(controller_tx[Len(history) + 1])
InboxReadInactive ==
    /\ Len(history) < Len(controller_tx)
    /\ ReceiveInactive(controller_tx[Len(history) + 1])

RestartNext ==
    \/ handle_blocked_accounts
    \/ set_offsets
    \/ handle_unfinalized_events
    \/ handle_last_events
    \/ ethereum_event_listener_start
    \/ handle_bridge_event
    \/ InboxReadDuplicate
    \/ InboxReadActive
    \/ InboxReadInactive

SpecRestart == InitRestart /\ [][RestartNext]_vars

\* ------------------------------------------------------------------------
\* The Oracle of src/src/oracle.rs and the Controller that reads its
\* events, with the EventListener of ethereum_event_listener.rs as the
\* other producer of events that carry the zero message id.

MaxOracle == 3

\* the prices the HTTP source may quote, in halves of 10^-9 USD
Quotes == {2, 3, 4}

\* Oracle::round_value: (v * 1000000000.0).round() * 1000000000, where
\* round takes a half away from zero
round_value(v) == ((v + 1) \div 2) * 1000000000

\* Event::OracleMessage(H256::default(), symbol, price) of start_polling;
\* the symbol is config.token_symbol
OracleMessage(price) ==
    [kind |-> "OracleMessage", id |-> 0, addr |-> 0, bn |-> 0,
     symbol |-> "DAI", price |-> price]

\* the oracle events among the events of a sequence
OracleMessages(events) ==
    {i \in DOMAIN events : events[i].kind = "OracleMessage"}

\* Oracle::start_polling, one pass of the loop: the price is fetched,
\* rounded and sent
start_polling ==
    /\ Cardinality(OracleMessages(controller_tx)) < MaxOracle
    /\ \E v \in Quotes :
          controller_tx' = Append(controller_tx, OracleMessage(round_value(v)))
    /\ UNCHANGED <<graph_node, offsets, listener_pc, last_events,
                   controller_vars, storage_vars, daemon_vars>>

OracleNext ==
    \/ start_polling
    \/ ethereum_event_listener_start
    \/ InboxReadDuplicate
    \/ InboxReadActive
    \/ InboxReadInactive

SpecOracle == Init /\ [][OracleNext]_vars

\* ------------------------------------------------------------------------
\* Vocabulary of the properties

InactiveStatus == {"NotReady", "Paused", "Stopped"}

Range(s) == {s[i] : i \in DOMAIN s}

\* s is a subsequence of t: the elements of s occur in t in the same order
RECURSIVE IsSubSeq(_, _)
IsSubSeq(s, t) ==
    IF s = <<>> THEN TRUE
    ELSE IF t = <<>> THEN FALSE
    ELSE IF Head(s) = Head(t) THEN IsSubSeq(Tail(s), Tail(t))
    ELSE IsSubSeq(s, Tail(t))

\* the events map holds, under the id of e, an event equal to e
Stored(e) ==
    /\ message_id(e) \in DOMAIN storage.events
    /\ storage.events[message_id(e)] = e

\* the account an AccountResumed event unblocks
ResumedAddress(e) ==
    CASE e.kind = "EthHostAccountResumedMessage" -> Eth(e.addr)
      [] e.kind = "EthGuestAccountResumedMessage" -> Sub(e.addr)
      [] OTHER -> None

\* the inputs read so far
Inputs == [i \in 1..Len(history) |-> history[i].event]

\* status and number of sent events before the i-th input was processed
StatusBefore(i) == IF i = 1 THEN "NotReady" ELSE history[i - 1].status
SentBefore(i) == IF i = 1 THEN 0 ELSE history[i - 1].sent

\* the events sent while the i-th input was processed
EmittedAt(i) == SubSeq(executor_tx, SentBefore(i) + 1, history[i].sent)

\* the events sent while the last input was processed
LastEmitted == IF history = <<>> THEN <<>> ELSE EmittedAt(Len(history))

\* the accepted events among inputs p .. j, in arrival order
AcceptedIn(p, j) ==
    LET F[k \in (p - 1)..j] ==
            IF k = p - 1 THEN <<>>
            ELSE IF history[k].result = "Ok"
                 THEN Append(F[k - 1], history[k].event)
                 ELSE F[k - 1]
    IN F[j]

\* the first input of the inactive period that ends with input j
RECURSIVE PeriodStart(_)
PeriodStart(j) ==
    IF j = 1 \/ StatusBefore(j) = "Active" THEN j ELSE PeriodStart(j - 1)

\* ------------------------------------------------------------------------
\* C1: every event with a sender that is sent to the Executor is sent at a
\* moment when its sender is not a key of the quarantine map, on the direct
\* emit of the triggering event and on the drain of the global queue.
C1_SenderNotBlockedAtSend ==
    \A i \in 1..Len(executor_tx) :
        sender(executor_tx[i]) # None => ~blocked_at_send[i]

\* C2: when the Controller applies unblockAccount(a), for the triggering
\* event or for a replayed one, every event of a's quarantine queue is sent
\* in that run of the closure, in enqueue order (or is at least still held
\* in the global queue), so that no later input overtakes it.
C2_UnblockedQueueIsSent ==
    [][ (~Stored(event') /\ status' = "Active")
        => \A a \in DOMAIN storage.events_of_blocked_accounts :
             a \in {ResumedAddress(q) : q \in {event'} \cup Range(deferred_events')}
             => IsSubSeq(storage.events_of_blocked_accounts[a],
                         SubSeq(executor_tx', Len(executor_tx) + 1, Len(executor_tx'))
                           \o storage'.events_queue) ]_vars

\* C3: no event (message id and payload) is sent to the Executor twice,
\* also when an event with the same id and another payload came in between.
C3_SentAtMostOnce ==
    \A i, j \in 1..Len(executor_tx) :
        i # j => executor_tx[i] # executor_tx[j]

\* C4: reading an event that the events map already holds under its id,
\* field for field, changes neither the status nor the storage and sends
\* nothing, whatever the family of the event.
C4_DuplicateChangesNothing ==
    [][ Stored(event')
        => /\ status' = status
           /\ storage' = storage
           /\ executor_tx' = executor_tx ]_vars

C4_Witness ==
    /\ result = "Duplicate"
    /\ event.kind = "EthBridgeResumedMessage"
    /\ status = "Paused"
    /\ storage.events_queue # <<>>

\* C5: at every transition into Active, the events accepted since the
\* inactive period began and the triggering event are all sent during the
\* transition, in their order of arrival.
C5_InactivePeriodIsReleasedInOrder ==
    \A j \in 1..Len(history) :
        (StatusBefore(j) \in InactiveStatus /\ history[j].status = "Active")
        => IsSubSeq(AcceptedIn(PeriodStart(j), j), EmittedAt(j))

C5_Witness ==
    /\ history # <<>>
    /\ StatusBefore(Len(history)) = "Paused"
    /\ status = "Active"
    /\ Len(AcceptedIn(PeriodStart(Len(history)), Len(history))) >= 3
    /\ \E k \in 1..Len(history) :
          k >= PeriodStart(Len(history)) /\ history[k].result = "Duplicate"

\* C6: a step from NotReady, Paused or Stopped to Active sends the whole
\* global queue in enqueue order and then the triggering event, last.
C6_TransitionSendsQueueThenTrigger ==
    [][ (status \in InactiveStatus /\ status' = "Active")
        => /\ event'.kind \in {"EthBridgeResumedMessage", "EthBridgeStartedMessage"}
           /\ executor_tx' = executor_tx \o storage.events_queue \o <<event'>> ]_vars

\* scenario S2: two relays held in NotReady, released by BridgeStarted
C6_Witness ==
    /\ Len(history) = 3
    /\ Inputs[1].kind = "EthRelayMessage"
    /\ Inputs[2].kind = "EthRelayMessage"
    /\ Inputs[3].kind = "EthBridgeStartedMessage"
    /\ executor_tx = Inputs

\* the transition table of the claim, by status and event kind
C7_Table(s, k) ==
    CASE s = "Active" /\ k = "EthBridgePausedMessage" -> "Paused"
      [] s = "Active" /\ k = "EthBridgeStoppedMessage" -> "Stopped"
      [] s = "NotReady" /\ k = "EthBridgeResumedMessage" -> "Active"
      [] s = "NotReady" /\ k = "EthBridgeStartedMessage" -> "Active"
      [] s = "Paused" /\ k = "EthBridgeResumedMessage" -> "Active"
      [] s = "Paused" /\ k = "EthBridgeStartedMessage" -> "Active"
      [] s = "Stopped" /\ k = "EthBridgeStartedMessage" -> "Active"
      [] OTHER -> s

\* C7: the status starts as NotReady, after each accepted event it is the
\* value of the transition table, Paused and Stopped are entered only from
\* Active, and NotReady is never re-entered.
C7_StatusFollowsTable ==
    [][ /\ history = <<>> => status = "NotReady"
        /\ ~Stored(event') => status' = C7_Table(status, event'.kind)
        /\ (status' \in {"Paused", "Stopped"} /\ status' # status) => status = "Active"
        /\ status # "NotReady" => status' # "NotReady" ]_vars

C7_Witness ==
    /\ status = "Stopped"
    /\ result = "Ok"
    /\ event.kind = "EthBridgeResumedMessage"

\* C8: an accepted event whose resulting status is NotReady, Paused or
\* Stopped is appended to the global queue; the quarantine map is left as
\* it was and nothing is sent; so every send happens in a step that ends in
\* Active.
C8_InactiveOnlyEnqueues ==
    [][ /\ (~Stored(event') /\ status' \in InactiveStatus)
           => /\ storage'.events_queue = Append(storage.events_queue, event')
              /\ storage'.events_of_blocked_accounts
                    = storage.events_of_blocked_accounts
              /\ executor_tx' = executor_tx
        /\ executor_tx' # executor_tx => status' = "Active" ]_vars

C8_Witness ==
    /\ status = "Paused"
    /\ result = "Ok"
    /\ event.kind = "EthHostAccountPausedMessage"
    /\ ~is_account_blocked(storage, Eth(event.addr))
    /\ storage.events_queue[Len(storage.events_queue)] = event

\* the inputs of scenario S3, after the BridgeStarted that sets up Active
S3Inputs ==
    << BridgeStarted01, GuestAccountPaused10, HostRelay11,
       GuestApprovedRelay12, GuestAccountResumed13 >>

\* C9 as stated: scenario S3 yields [GuestAccountPaused, HostRelay,
\* GuestAccountResumed, GuestApprovedRelay]; an AccountResumed event for a
\* blocked account that arrives while Active is sent before the transfers
\* released from the account's queue.
C9_ResumedBeforeReleased ==
    /\ Inputs = S3Inputs
       => executor_tx = << BridgeStarted01, GuestAccountPaused10, HostRelay11,
                           GuestAccountResumed13, GuestApprovedRelay12 >>
    /\ ( /\ history # <<>>
         /\ result = "Ok"
         /\ status = "Active"
         /\ ResumedAddress(event) # None
         /\ deferred_events # <<>> )
       => LastEmitted = <<event>> \o deferred_events

\* C9 amended: scenario S3 yields [GuestAccountPaused, HostRelay,
\* GuestApprovedRelay, GuestAccountResumed]; an AccountResumed event for a
\* blocked account that arrives while Active is sent after the transfers
\* released from the account's queue, which are sent in enqueue order.
C9_ReleasedBeforeResumed ==
    /\ [](Inputs = S3Inputs
          => executor_tx = << BridgeStarted01, GuestAccountPaused10, HostRelay11,
                              GuestApprovedRelay12, GuestAccountResumed13 >>)
    /\ [][ ( /\ status = "Active"
             /\ ~Stored(event')
             /\ ResumedAddress(event') \in DOMAIN storage.events_of_blocked_accounts )
           => executor_tx' =
                executor_tx
                  \o storage.events_of_blocked_accounts[ResumedAddress(event')]
                  \o <<event'>> ]_vars

C9_Witness ==
    /\ Inputs = S3Inputs
    /\ deferred_events = <<GuestApprovedRelay12>>
    /\ LastEmitted = <<GuestApprovedRelay12, GuestAccountResumed13>>

\* C10: after every run of the closure, status = Active implies that the
\* global queue is empty.
C10_ActiveHasEmptyQueue ==
    status = "Active" => storage.events_queue = <<>>

\* an unblock moved events into the global queue during an Active step
C10_Witness ==
    /\ status = "Active"
    /\ result = "Ok"
    /\ ResumedAddress(event) # None
    /\ deferred_events # <<>>
    /\ storage.events_queue = <<>>

\* ------------------------------------------------------------------------
\* C11: every event held in the global queue or in an account queue is
\* present in the events map under its message id, also after a later event
\* with the same id and another payload has been accepted.

\* the events held in the queues of the storage
QueuedEvents ==
    Range(storage.events_queue)
    \cup UNION { Range(storage.events_of_blocked_accounts[a]) :
                   a \in DOMAIN storage.events_of_blocked_accounts }

C11_QueuedEventsAreStored == \A e \in QueuedEvents : Stored(e)

\* ------------------------------------------------------------------------
\* C12: put_event returns Duplicate exactly when the events map holds, under
\* the id of the event, an event equal to it; otherwise it returns Ok, the
\* map then holds the event under its id, and the Controller processes the
\* event as a new one: it sends it, queues it or quarantines it.

\* what the events map held under the id of the last input before it was
\* read: the last accepted input that has this id
StoredBeforeLast ==
    LET n == Len(history)
        earlier == {j \in 1..(n - 1) :
                       /\ history[j].result = "Ok"
                       /\ message_id(history[j].event) = message_id(event)}
    IN IF earlier = {}
       THEN NoEvent
       ELSE history[CHOOSE j \in earlier : \A k \in earlier : k <= j].event

C12_DuplicateExactlyWhenStoredEqual ==
    history # <<>> =>
        /\ event = history[Len(history)].event
        /\ result = history[Len(history)].result
        /\ result = "Duplicate" <=> StoredBeforeLast = event
        /\ result = "Duplicate" => LastEmitted = <<>>
        /\ result # "Duplicate" =>
            /\ result = "Ok"
            /\ Stored(event)
            /\ event \in Range(LastEmitted) \cup QueuedEvents

\* an event replaced the stored event that has its id, and was sent
C12_Witness ==
    /\ history # <<>>
    /\ result = "Ok"
    /\ StoredBeforeLast # NoEvent
    /\ StoredBeforeLast # event
    /\ event \in Range(LastEmitted)
    /\ storage.events[message_id(event)] = event

\* ------------------------------------------------------------------------
\* C13: an EthRevertMessage accepted while the status is Active whose sender
\* is blocked is put in the queue of that account and is not sent in that
\* step.

\* the last input was accepted in status Active, which it left unchanged
AcceptedWhileActive ==
    /\ history # <<>>
    /\ result = "Ok"
    /\ StatusBefore(Len(history)) = "Active"
    /\ status = "Active"

TaggedAddress(e) ==
    IF e.kind \in EthAddressKinds THEN Eth(e.addr)
    ELSE IF e.kind \in SubAddressKinds THEN Sub(e.addr)
    ELSE None

C14_QuarantineIsBySender ==
    /\ \A a \in DOMAIN storage.events_of_blocked_accounts :
           \A e \in Range(storage.events_of_blocked_accounts[a]) :
               a # None /\ TaggedAddress(e) = a
    /\ ( /\ AcceptedWhileActive
         /\ event_type(event) = "Transfer"
         /\ TaggedAddress(event)
                \notin DOMAIN storage.events_of_blocked_accounts )
       => /\ event \notin QueuedEvents
          /\ LastEmitted # <<>>
          /\ LastEmitted[Len(LastEmitted)] = event

\* Sub(7) is blocked, and an EthRelayMessage sent by Eth(7) to SUB_ADDRESS
\* was sent in the step that accepted it
C14_Witness ==
    /\ AcceptedWhileActive
    /\ event.kind = "EthRelayMessage"
    /\ event.addr = 7
    /\ DOMAIN storage.events_of_blocked_accounts = {Sub(7)}
    /\ LastEmitted = <<event>>

\* ------------------------------------------------------------------------
\* C15: within one Active period, of two events accepted one after the
\* other the first is sent to the Executor before the second.

\* inputs i .. j were read in one Active period
SameActivePeriod(i, j) ==
    /\ StatusBefore(i) = "Active"
    /\ \A k \in i..j : history[k].status = "Active"

\* the place in executor_tx of the send of the i-th input, 0 when it has
\* not been sent
SendPos(i) ==
    LET sends == {p \in (SentBefore(i) + 1)..Len(executor_tx) :
                     executor_tx[p] = history[i].event}
    IN IF sends = {} THEN 0
       ELSE CHOOSE p \in sends : \A q \in sends : p <= q

C16_PutTwiceIsOkThenDuplicate ==
    [][ call'.op = "put_event" =>
          /\ message_id(event') \notin DOMAIN storage.events => result' = "Ok"
          /\ (call.op = "put_event" /\ event = event') =>
                /\ result' = "Duplicate"
                /\ storage' = storage ]_vars

\* the last call was a put_event of an event the storage held already
C16_Witness ==
    /\ call.op = "put_event"
    /\ result = "Duplicate"
    /\ storage.events[message_id(event)] = event

\* ------------------------------------------------------------------------
\* C17: the global queue is a FIFO.  It is empty in a new storage;
\* put_event_to_queue appends the event at its end; iter_events_queue
\* yields the queue in that order and leaves it as it is;
\* clear_events_queue empties it; put_event_to_queue and clear_events_queue
\* change neither the events map nor an account queue.

C17_GlobalQueueIsFifo ==
    /\ storage.events_queue = <<>>
    /\ [][ /\ call'.op = "put_event_to_queue" =>
                storage' = [storage EXCEPT
                              !.events_queue = Append(@, event')]
           /\ call'.op = "iter_events_queue" =>
                /\ deferred_events' = storage.events_queue
                /\ storage' = storage
           /\ call'.op = "clear_events_queue" =>
                storage' = [storage EXCEPT !.events_queue = <<>>] ]_vars

\* the queue was read after two different events were put in it
C17_Witness ==
    /\ call.op = "iter_events_queue"
    /\ deferred_events = <<PausedEvent, RelayEvent>>
    /\ storage.events_queue = <<PausedEvent, RelayEvent>>

\* ------------------------------------------------------------------------
\* C18: an account is blocked by block_account only, and is blocked after
\* it; put_event_to_account_queue of an event whose sender is blocked
\* appends the event to the queue of the sender and changes nothing else;
\* unblock_account of a blocked account appends the queue of the account
\* to the global queue, and the account is not blocked afterwards.

Blocked(st) == DOMAIN st.events_of_blocked_accounts

C18_BlockEnqueueUnblock ==
    /\ Blocked(storage) = {}
    /\ [][ /\ \A a \in Blocked(storage') \ Blocked(storage) :
                call'.op = "block_account" /\ call'.address = a
           /\ call'.op = "block_account" =>
                call'.address \in Blocked(storage')
           /\ ( /\ call'.op = "put_event_to_account_queue"
                /\ sender(event') \in Blocked(storage) ) =>
                storage' =
                  [storage EXCEPT
                     !.events_of_blocked_accounts[sender(event')] =
                         Append(@, event')]
           /\ ( /\ call'.op = "unblock_account"
                /\ call'.address \in Blocked(storage) ) =>
                /\ storage'.events_queue =
                     storage.events_queue
                     \o storage.events_of_blocked_accounts[call'.address]
                /\ Blocked(storage') = Blocked(storage) \ {call'.address}
                /\ storage'.events = storage.events ]_vars

\* a blocked account was unblocked, and the global queue holds three events
C18_Witness ==
    /\ call.op = "unblock_account"
    /\ call.address = Eth(7)
    /\ result = "None"
    /\ Blocked(storage) = {}
    /\ storage.events_queue = <<PausedEvent, RelayEvent, RelayEvent2>>

\* ------------------------------------------------------------------------
\* C19: block_account of a blocked account and unblock_account of an
\* account that is not blocked leave the storage as it was.

C19_RedundantBlockAndUnblock ==
    [][ /\ ( /\ call'.op = "block_account"
             /\ call'.address \in Blocked(storage) ) => storage' = storage
        /\ ( /\ call'.op = "unblock_account"
             /\ call'.address \notin Blocked(storage) ) =>
                storage' = storage ]_vars

\* block_account found the account blocked, and the queue of the account
\* still holds an event
C19_Witness ==
    /\ call.op = "block_account"
    /\ result = "is already blocked"
    /\ storage.events_of_blocked_accounts[call.address] # <<>>

\* unblock_account found the account not blocked, and the global queue is
\* still empty
C19_WitnessUnblock ==
    /\ call.op = "unblock_account"
    /\ result = "can not found account queue"
    /\ storage.events_queue = <<>>

\* ------------------------------------------------------------------------
\* C20: after set_offsets the offset of each category is the highest
\* eth_block_number the store holds in the category, 0 when it holds none,
\* and the first handle_last_events, on the same store, gets no record and
\* sends no event.

\* the highest eth_block_number of the records of a category, 0 for none
MaxBlockNumber(category) ==
    IF graph_node[category] = {} THEN 0
    ELSE CHOOSE b \in {r.eth_block_number : r \in graph_node[category]} :
             \A r \in graph_node[category] : r.eth_block_number <= b

C20_OffsetsAtMaxAndFirstTickEmpty ==
    /\ listener_pc.fn = "handle_unfinalized_events" =>
           \A c \in Categories : offsets[c] = MaxBlockNumber(c)
    /\ (listener_pc.fn = "handle_last_events" /\ listener_pc.ticks = 1) =>
           last_events = <<>>

\* ------------------------------------------------------------------------
\* C21: no record is skipped.  Every record the indexer adds to a category
\* after the offsets were set is pushed by a pass of the loop; so a record
\* whose block number is not above the offset of its category, which no
\* later query returns, has been pushed already.

\* the event of a record of a category has been sent to the Controller
Pushed(category, r) ==
    \E i \in DOMAIN controller_tx :
        controller_tx[i] = into_events(category, <<r>>)[1]

C21_NoIndexedRecordIsBelowItsOffsetUnpushed ==
    \A c \in Categories : \A r \in Indexed(c) :
        r.eth_block_number <= offsets[c] => Pushed(c, r)

\* ------------------------------------------------------------------------
\* C22 (as stated): the sequence of events the EventListener sends to the
\* Controller over its whole run is non-decreasing in block number.

\* a sequence of events is non-decreasing in block number
InBlockOrder(events) ==
    \A i, j \in DOMAIN events :
        i < j => events[i].bn <= events[j].bn

C22_WholeRunInBlockOrder == InBlockOrder(controller_tx)

\* C22 (amended): every batch of events sent by handle_unfinalized_events
\* or by one pass of handle_last_events is non-decreasing in block number,
\* and is the end of what was sent so far.
C22_EachBatchInBlockOrder ==
    listener_pc.fn = "handle_last_events" =>
        /\ InBlockOrder(last_events)
        /\ Len(last_events) <= Len(controller_tx)
        /\ last_events = SubSeq(controller_tx,
                                Len(controller_tx) - Len(last_events) + 1,
                                Len(controller_tx))

\* a pass of the loop sent events of two categories, in block order, after
\* an earlier batch that carried a higher block number
C22_Witness ==
    /\ listener_pc.fn = "handle_last_events"
    /\ listener_pc.ticks >= 1
    /\ \E i, j \in DOMAIN last_events :
          /\ i < j
          /\ last_events[i].bn < last_events[j].bn
          /\ event_type(last_events[i]) # event_type(last_events[j])
    /\ ~InBlockOrder(controller_tx)

\* ------------------------------------------------------------------------
\* C28: in a pass of the loop, a category whose request failed sends no
\* event and keeps its offset, so the next pass asks from the same offset;
\* the offset of a category moves only when its response is not empty, to
\* the highest block number of the response, and then the whole response
\* is sent; a category can fail while another category's response is sent
\* in the same pass.

\* the events of a sequence that come from the records of a category
EventsOf(category, events) ==
    SelectSeq(events,
              LAMBDA e : \E r \in graph_node[category] :
                             e = into_events(category, <<r>>)[1])

\* what a pass of the loop does for a category whose request failed or
\* returned nothing
CategorySkipped(c) ==
    /\ EventsOf(c, last_events') = <<>>
    /\ offsets'[c] = offsets[c]

\* what a pass of the loop does for a category whose response is not empty
CategorySent(c) ==
    /\ all_query(c, offsets[c]) # <<>>
    /\ EventsOf(c, last_events') = into_events(c, all_query(c, offsets[c]))
    /\ offsets'[c] = max_eth_block_number(all_query(c, offsets[c]))

C24_NoEventForExistingTransfers ==
    EventsOf("messages", controller_tx) = <<>>

\* C24 (amended): before the first pass of the loop, the EventListener has
\* sent no event for a transfer message whose status is final, and at most
\* one event, in handle_unfinalized_events, for each transfer message whose
\* status is PENDING, WITHDRAW, APPROVED or CANCELED.
Unfinalized(r) == r.status \in {"PENDING", "WITHDRAW", "APPROVED", "CANCELED"}

C24_ColdStartSendsUnfinalizedOnly ==
    (listener_pc.fn = "handle_last_events" /\ listener_pc.ticks = 0) =>
        /\ EventsOf("messages", controller_tx) = last_events
        /\ \A r \in graph_node.messages :
              LET sent == { i \in DOMAIN last_events :
                              last_events[i] = message_event(r) }
              IN IF Unfinalized(r) THEN Cardinality(sent) <= 1
                                   ELSE sent = {}

\* the cold start on the store of S6 where the messages of blocks 5 and 7
\* are PENDING and the message of block 9 is CONFIRMED: the two PENDING
\* messages were sent, the CONFIRMED one was not
C24_Witness ==
    /\ listener_pc.fn = "handle_last_events"
    /\ listener_pc.ticks = 0
    /\ graph_node.messages = { Rec(5, 5, "PENDING", "ETH2SUB"),
                               Rec(7, 7, "PENDING", "ETH2SUB"),
                               Rec(9, 9, "CONFIRMED", "ETH2SUB") }
    /\ last_events = << message_event(Rec(5, 5, "PENDING", "ETH2SUB")),
                        message_event(Rec(7, 7, "PENDING", "ETH2SUB")) >>
    /\ offsets.messages = 9

\* ------------------------------------------------------------------------
\* C25: the decoding of a transfer message is a total function of its
\* status and direction: PENDING and ETH2SUB give EthRelayMessage, APPROVED
\* and ETH2SUB give EthApprovedRelayMessage, CANCELED and ETH2SUB give
\* EthRevertMessage, WITHDRAW and SUB2ETH give EthWithdrawMessage, any
\* other pair gives EthApprovedRelayMessage; the decoder of the query by
\* status and the decoder of the query of the loop give the same event.

\* the kind the table of the decoding rules gives
DecodedKind(st, direction) ==
    IF st = "PENDING" /\ direction = "ETH2SUB" THEN "EthRelayMessage"
    ELSE IF st = "APPROVED" /\ direction = "ETH2SUB"
         THEN "EthApprovedRelayMessage"
    ELSE IF st = "CANCELED" /\ direction = "ETH2SUB" THEN "EthRevertMessage"
    ELSE IF st = "WITHDRAW" /\ direction = "SUB2ETH" THEN "EthWithdrawMessage"
    ELSE "EthApprovedRelayMessage"

\* an event is the decoding of a record by the table
DecodesTo(r, e) ==
    /\ e.kind = DecodedKind(r.status, r.direction)
    /\ e.id = r.id
    /\ e.bn = r.eth_block_number

C25_DecodingIsTotalAndTheSameInBothQueries ==
    \A r \in graph_node.messages :
        /\ event # NoEvent => DecodesTo(r, event)
        /\ last_events # <<>> => DecodesTo(r, last_events[1])
        /\ (event # NoEvent /\ last_events # <<>>) => last_events[1] = event

\* both decoders were applied to a WITHDRAW message of direction ETH2SUB,
\* a pair outside the four rules
C25_Witness ==
    /\ event # NoEvent
    /\ last_events = <<event>>
    /\ event.kind = "EthApprovedRelayMessage"
    /\ \E r \in graph_node.messages :
           r.status = "WITHDRAW" /\ r.direction = "ETH2SUB"

\* ------------------------------------------------------------------------
\* C29: once the Executor is dead nothing more is sent; the Controller
\* panics in the run of the closure that attempts a send (the status after
\* the event is Active and the event is not a Transfer held for a blocked
\* sender), and from then on reads no event and changes nothing; a run
\* that leaves the status NotReady, Paused or Stopped attempts no send,
\* puts the event at the end of the global queue and leaves the Controller
\* running.
C29_SendToDeadExecutorIsFatal ==
    [][ /\ controller_thread = "panicked" =>
              UNCHANGED <<controller_vars, storage, controller_thread>>
        /\ (executor_thread = "dead" /\ controller_thread = "running"
              /\ history' # history /\ result' = "Ok") =>
              LET held == /\ event_type(event') = "Transfer"
                          /\ TaggedAddress(event') \in
                                 DOMAIN storage.events_of_blocked_accounts
              IN /\ executor_tx' = executor_tx
                 /\ IF status' = "Active"
                    THEN controller_thread' =
                             IF held THEN "running" ELSE "panicked"
                    ELSE /\ controller_thread' = "running"
                         /\ storage'.events_queue =
                                Append(storage.events_queue, event')
      ]_vars

\* the Controller panicked in the replay of the global queue: the events
\* of the queue were accepted while the status was not Active, and the
\* allow to send came after the Executor died
C29_Witness ==
    /\ controller_thread = "panicked"
    /\ executor_thread = "dead"
    /\ deferred_events # <<>>
    /\ Len(executor_tx) >= 1

\* after the Executor died the Controller, Paused, accepted and queued an
\* event and is still running
C29_WitnessQueued ==
    /\ controller_thread = "running"
    /\ executor_thread = "dead"
    /\ status = "Paused"
    /\ Len(executor_tx) = 1
    /\ Len(storage.events_queue) >= 2

\* ------------------------------------------------------------------------
\* C26 (as stated): the Executor maps every event to the operation of the
\* dispatch table; GuestAccountPaused and GuestAccountResumed go to the
\* ethereum methods setPausedStatusForGuestAddress and
\* setResumedStatusForGuestAddress, and only the paused and resumed events
\* of an ethereum account produce no transaction.

\* the table, row by row; the specification has one GuestAccountPaused and
\* one GuestAccountResumed, whichever chain reported it
StatedOperation(kind) ==
    IF kind \in {"EthBridgePausedMessage", "EthBridgeStoppedMessage"}
    THEN Operation("substrate", "pause_bridge")
    ELSE IF kind \in {"EthBridgeResumedMessage", "EthBridgeStartedMessage"}
    THEN Operation("substrate", "resume_bridge")
    ELSE IF kind = "EthRelayMessage"
    THEN Operation("ethereum", "approveTransfer")
    ELSE IF kind = "EthApprovedRelayMessage"
    THEN Operation("substrate", "mint")
    ELSE IF kind = "EthRevertMessage"
    THEN Operation("substrate", "cancel_transfer")
    ELSE IF kind = "EthWithdrawMessage"
    THEN Operation("substrate", "confirm_transfer")
    ELSE IF kind = "EthSetNewLimits"
    THEN Operation("substrate", "update_limits")
    ELSE IF kind = "EthValidatorsListMessage"
    THEN Operation("substrate", "update_validator_list")
    ELSE IF kind = "SubRelayMessage"
    THEN Operation("substrate", "approve_transfer")
    ELSE IF kind = "SubApprovedRelayMessage"
    THEN Operation("ethereum", "withdrawTransfer")
    ELSE IF kind = "SubBurnedMessage"
    THEN Operation("ethereum", "confirmWithdrawTransfer")
    ELSE IF kind = "SubMintedMessage"
    THEN Operation("ethereum", "confirmTransfer")
    ELSE IF kind = "SubCancellationConfirmedMessage"
    THEN Operation("ethereum", "confirmCancelTransfer")
    ELSE IF kind \in {"EthGuestAccountPausedMessage", "SubAccountPausedMessage"}
    THEN Operation("ethereum", "setPausedStatusForGuestAddress")
    ELSE IF kind \in {"EthGuestAccountResumedMessage",
                      "SubAccountResumedMessage"}
    THEN Operation("ethereum", "setResumedStatusForGuestAddress")
    ELSE IF kind = "OracleMessage"
    THEN Operation("substrate", "record_price")
    ELSE Operation("none", "none")

\* every event read has one entry in operations, in the order of the outbox
OneOperationPerEvent ==
    /\ Len(operations) <= Len(executor_tx)
    /\ \A i \in DOMAIN operations : operations[i].event = executor_tx[i]

C30_NoncesAreFresh ==
    \A i, j \in DOMAIN tasks :
        (i # j /\ tasks[i].nonce >= 0 /\ tasks[j].nonce >= 0) =>
            tasks[i].nonce # tasks[j].nonce

\* ------------------------------------------------------------------------
\* C23: after a restart, whatever the order in which the events of the
\* producers reach the inbox, the events of the blocked-account backfill
\* stand before the events of the unfinalized backfill, and when the
\* Controller is Active every account whose backfill event it has read, and
\* for which it has read no resumed event of the ethereum chain, is a key
\* of events_of_blocked_accounts.

\* the events of the blocked-account backfill and of the unfinalized
\* backfill
AccountBackfill == { account_event(r) : r \in graph_node.accounts }
TransferBackfill ==
    { message_by_status_event(r) :
        r \in { x \in graph_node.messages : Unfinalized(x) } }

\* the part of the inbox the Controller has read
Processed == SubSeq(controller_tx, 1, Len(history))

\* the Controller has read an event that resumes the account
ResumedAccount(a) ==
    \E i \in DOMAIN Processed :
        /\ Processed[i].kind \in {"EthHostAccountResumedMessage",
                                  "EthGuestAccountResumedMessage"}
        /\ TaggedAddress(Processed[i]) = a

C23_BackfilledAccountsAreBlocked ==
    /\ \A i, j \in DOMAIN controller_tx :
          (controller_tx[i] \in AccountBackfill
             /\ controller_tx[j] \in TransferBackfill) => i < j
    /\ \A i \in DOMAIN history : history[i].event = controller_tx[i]
    /\ status = "Active" =>
          \A i \in DOMAIN Processed :
              (Processed[i] \in AccountBackfill
                 /\ ~ResumedAccount(TaggedAddress(Processed[i]))) =>
                  TaggedAddress(Processed[i]) \in
                      DOMAIN storage.events_of_blocked_accounts

\* the BridgeStarted event of the status read landed between the two
\* events of the blocked-account backfill: the first account was blocked in
\* the replay of the queue, the second when its event was read, and the
\* PENDING transfer of the ethereum account is held in its queue
C23_Witness ==
    /\ status = "Active"
    /\ Len(history) >= 4
    /\ history[1].event \in AccountBackfill
    /\ history[2].event = Ev("EthBridgeStartedMessage", 0, 0, 0)
    /\ history[3].event \in AccountBackfill
    /\ DOMAIN storage.events_of_blocked_accounts = {Eth(7), Sub(7)}
    /\ storage.events_of_blocked_accounts[Eth(7)] =
           <<Ev("EthRelayMessage", 5, 7, 5)>>

\* ------------------------------------------------------------------------
\* C27: the EventListener of ethereum_event_listener.rs sends one event,
\* the only one it ever sends: EthBridgeStartedMessage for the status 0,
\* EthBridgePausedMessage for 1, EthBridgeStoppedMessage for any other
\* status, with the zero message id and the block number 0; read by a
\* NotReady Controller, the started event makes it Active and the paused
\* and the stopped event leave it NotReady.

\* the kind of the event for a status of the bridge contract
StatusKind(bridge_status) ==
    IF bridge_status = 0 THEN "EthBridgeStartedMessage"
    ELSE IF bridge_status = 1 THEN "EthBridgePausedMessage"
    ELSE "EthBridgeStoppedMessage"

C27_WitnessStarted ==
    /\ web3.bridge_status = 0
    /\ \E i \in DOMAIN history :
          /\ history[i].event = Ev("EthBridgeStartedMessage", 0, 0, 0)
          /\ StatusBefore(i) = "NotReady"
          /\ history[i].status = "Active"

PausedAddress(e) ==
    CASE e.kind = "EthHostAccountPausedMessage" -> Eth(e.addr)
      [] e.kind = "EthGuestAccountPausedMessage" -> Sub(e.addr)
      [] OTHER -> None

\* the blocked accounts after the account-control events of a queue are
\* applied in order to a set of blocked accounts
RECURSIVE BlockedAfter(_, _)
BlockedAfter(blocked, queue) ==
    IF queue = <<>> THEN blocked
    ELSE LET q == Head(queue)
         IN BlockedAfter(
                IF PausedAddress(q) # None THEN blocked \cup {PausedAddress(q)}
                ELSE IF ResumedAddress(q) # None
                     THEN blocked \ {ResumedAddress(q)}
                     ELSE blocked,
                Tail(queue))

C32_WitnessPaused ==
    /\ history # <<>>
    /\ StatusBefore(Len(history)) = "Paused"
    /\ status = "Active"
    /\ GuestAccountPaused10 \in Range(deferred_events)
    /\ GuestAccountResumed13 \notin Range(deferred_events)
    /\ is_account_blocked(storage, Sub(7))

\* ------------------------------------------------------------------------
\* C33: a BridgePaused or BridgeStopped event accepted while the status is
\* Active is put in the global queue and is not sent in that step, nor in
\* any step before the next transition into Active; the step of that
\* transition sends it first, then the events accepted while inactive in
\* their order, then the reactivating event.  Scenario S4: BridgePaused,
\* HostRelay, BridgeResumed read while Active are all three sent, in this
\* order, in the step of BridgeResumed.

\* the inputs of scenario S4, after the BridgeStarted that sets up Active
S4Inputs ==
    <<BridgeStarted01, BridgePausedA1, HostRelayA2, BridgeResumedA3>>

\* the i-th input deactivated the bridge: it was accepted while Active and
\* is a BridgePaused or a BridgeStopped event
Deactivates(i) ==
    /\ StatusBefore(i) = "Active"
    /\ history[i].result = "Ok"
    /\ history[i].event.kind \in
           {"EthBridgePausedMessage", "EthBridgeStoppedMessage"}

\* the inputs after the i-th one that made the status Active
Reactivations(i) ==
    {k \in DOMAIN history : k > i /\ history[k].status = "Active"}

C33_DeactivatingEventWaitsForReactivation ==
    /\ \A i \in DOMAIN history :
          Deactivates(i) =>
             /\ history[i].status \in InactiveStatus
             /\ EmittedAt(i) = <<>>
             /\ IF Reactivations(i) = {}
                THEN /\ Len(executor_tx) = SentBefore(i)
                     /\ storage.events_queue = AcceptedIn(i, Len(history))
                ELSE LET k == CHOOSE x \in Reactivations(i) :
                                  \A y \in Reactivations(i) : x <= y
                     IN /\ history[k - 1].sent = SentBefore(i)
                        /\ EmittedAt(k) = AcceptedIn(i, k)
                        /\ Head(EmittedAt(k)) = history[i].event
                        /\ EmittedAt(k)[Len(EmittedAt(k))] = history[k].event
    /\ Inputs = S4Inputs
          => /\ executor_tx = S4Inputs
             /\ EmittedAt(4) = <<BridgePausedA1, HostRelayA2, BridgeResumedA3>>

\* scenario S4 has run
C33_Witness ==
    /\ Inputs = S4Inputs
    /\ status = "Active"
    /\ deferred_events = <<BridgePausedA1, HostRelayA2>>
    /\ storage.events_queue = <<>>

\* a stop: the BridgeStopped event and a BridgeResumed event that does not
\* reactivate wait in the global queue and are sent when the bridge starts
\* again
C33_WitnessStopped ==
    /\ Len(history) = 4
    /\ Deactivates(2)
    /\ history[2].event = BridgeStoppedA4
    /\ history[3].event = BridgeResumedA3
    /\ history[3].status = "Stopped"
    /\ status = "Active"
    /\ EmittedAt(4) = <<BridgeStoppedA4, BridgeResumedA3, BridgeStartedA5>>

\* ------------------------------------------------------------------------
\* C34: whichever producer emitted it, a guest account-paused event that
\* the Controller has handled while Active leaves the guest account blocked
\* and a guest account-resumed event leaves it not blocked: the
\* SubAccountPausedMessage of the guest-chain subscriber as the
\* EthGuestAccountPausedMessage of the indexed-store poller.

GuestAccountPausedKinds ==
    {"EthGuestAccountPausedMessage", "SubAccountPausedMessage"}

GuestAccountResumedKinds ==
    {"EthGuestAccountResumedMessage", "SubAccountResumedMessage"}

C34_GuestAccountControlFromAnyProducer ==
    (history # <<>> /\ result = "Ok" /\ status = "Active")
    => /\ event.kind \in GuestAccountPausedKinds
            => Sub(event.addr) \in DOMAIN storage.events_of_blocked_accounts
       /\ event.kind \in GuestAccountResumedKinds
            => Sub(event.addr) \notin DOMAIN storage.events_of_blocked_accounts

\* ------------------------------------------------------------------------
\* C35 (as stated): deduplication never suppresses an oracle event.  Every
\* oracle event the Controller reads is accepted as new, a tick whose
\* symbol and price equal those of the previous tick included.
C35_EveryOracleTickIsAccepted ==
    \A i \in OracleMessages(Inputs) : history[i].result = "Ok"

\* the accepted events read before the i-th input that carry the zero
\* message id
AcceptedZeroIdBefore(i) ==
    {k \in 1..(i - 1) : history[k].result = "Ok" /\ history[k].event.id = 0}

\* the last accepted event with the zero message id read before the i-th
\* input equals the i-th input
RepeatsLastZeroId(i) ==
    /\ AcceptedZeroIdBefore(i) # {}
    /\ LET k == CHOOSE x \in AcceptedZeroIdBefore(i) :
                    \A y \in AcceptedZeroIdBefore(i) : y <= x
       IN history[k].event = history[i].event

\* C35 (amended): an oracle event is dropped as a duplicate exactly when
\* the last event accepted with the zero message id is an oracle event of
\* the same symbol and the same scaled price; otherwise it is accepted as
\* new and is sent, in a step that leaves the status Active, or queued.
\* So a tick that repeats the price of the previous tick is suppressed
\* unless another event with the zero id was accepted between the two,
\* and a tick with another price is never suppressed.
C35_OracleTickIsDroppedIfItRepeats ==
    \A i \in OracleMessages(Inputs) :
        /\ history[i].result =
               IF RepeatsLastZeroId(i) THEN "Duplicate" ELSE "Ok"
        /\ EmittedAt(i) =
               IF history[i].result = "Ok" /\ history[i].status = "Active"
               THEN <<history[i].event>> ELSE <<>>
        /\ (history[i].result = "Ok" /\ history[i].status # "Active"
              /\ i = Len(history))
           => storage.events_queue[Len(storage.events_queue)] =
                  history[i].event

\* two ticks in a row quote prices that round to the same scaled price:
\* the first is accepted and sent, the second is dropped
C35_Witness ==
    /\ Len(history) >= 2
    /\ status = "Active"
    /\ history[Len(history) - 1].event = OracleMessage(2000000000)
    /\ history[Len(history) - 1].result = "Ok"
    /\ history[Len(history)].event = OracleMessage(2000000000)
    /\ history[Len(history)].result = "Duplicate"

\* the same two ticks with the BridgeStarted event of the zero id accepted
\* between them: both are accepted
C35_WitnessBetween ==
    /\ Len(history) = 3
    /\ history[1].event = OracleMessage(1000000000)
    /\ history[2].event = Ev("EthBridgeStartedMessage", 0, 0, 0)
    /\ history[3].event = OracleMessage(1000000000)
    /\ history[3].result = "Ok"
    /\ executor_tx = Inputs

\* ------------------------------------------------------------------------
\* C36: no accepted event is discarded.  After every run of the closure,
\* each event accepted so far has been sent to the Executor, or is in the
\* global queue, or is in the queue of an account that is blocked now.
C36_AcceptedEventsAreSentOrHeld ==
    \A i \in DOMAIN history :
        history[i].result = "Ok"
        => history[i].event \in Range(executor_tx) \cup QueuedEvents

\* ------------------------------------------------------------------------
\* C37: each acceptance of an event leads to at most one send of it.  For
\* every event, the number of times it has been sent plus the number of
\* places where it is held now (the global queue and the queues of the
\* accounts) is at most the number of times it has been accepted: an
\* accepted event is held in one place at most, an event moved from an
\* account queue to the global queue has left the account map, and an
\* event sent in a drain is in no queue when the step ends.

\* the number of places of a sequence that hold e
Occurrences(e, events) == Cardinality({i \in DOMAIN events : events[i] = e})

\* the number of places of the queues of the accounts in keys that hold e
RECURSIVE HeldInAccounts(_, _)
HeldInAccounts(e, keys) ==
    IF keys = {} THEN 0
    ELSE LET a == CHOOSE x \in keys : TRUE
         IN Occurrences(e, storage.events_of_blocked_accounts[a])
            + HeldInAccounts(e, keys \ {a})

Held(e) ==
    Occurrences(e, storage.events_queue)
    + HeldInAccounts(e, DOMAIN storage.events_of_blocked_accounts)

Acceptances(e) ==
    Cardinality({i \in DOMAIN history :
                    history[i].event = e /\ history[i].result = "Ok"})

C37_AtMostOneSendPerAcceptance ==
    \A e \in Range(Inputs) \cup Range(executor_tx) \cup QueuedEvents :
        Occurrences(e, executor_tx) + Held(e) <= Acceptances(e)

\* a transfer held for the blocked account S was released by the unblock,
\* sent in the drain of that step, and a later transition into Active
\* drained the global queue again: the transfer is in the outbox once
C37_Witness ==
    /\ Len(history) = 6
    /\ history[4].event = GuestAccountResumed13
    /\ EmittedAt(4) = <<GuestApprovedRelay12, GuestAccountResumed13>>
    /\ history[5].event = BridgePausedA1
    /\ history[6].event = BridgeResumedA3
    /\ status = "Active"
    /\ Occurrences(GuestApprovedRelay12, executor_tx) = 1
    /\ Held(GuestApprovedRelay12) = 0

\* ------------------------------------------------------------------------
\* C38: every event in the queue of account a is a Transfer with the
\* sender a that was accepted in a step that left the status Active; and
\* put_event_to_account_queue is called only for an event whose sender is
\* Some(a) with a blocked: an event accepted while Active that is not sent
\* in that step is afterwards the last event of the queue of its sender,
\* so it was neither dropped with the warning nor did expect panic.

\* the Transfer variants that have a sender
TransferWithSenderKinds ==
    { "EthRelayMessage", "EthApprovedRelayMessage",
      "SubApprovedRelayMessage", "SubBurnedMessage" }

\* e was accepted in a step that left the status Active
AcceptedInActive(e) ==
    \E i \in DOMAIN history :
        /\ history[i].event = e
        /\ history[i].result = "Ok"
        /\ history[i].status = "Active"

C38_QuarantineHoldsActiveTransfersOfTheAccount ==
    /\ \A a \in DOMAIN storage.events_of_blocked_accounts :
           \A e \in Range(storage.events_of_blocked_accounts[a]) :
               /\ e.kind \in TransferWithSenderKinds
               /\ TaggedAddress(e) = a
               /\ AcceptedInActive(e)
    /\ ( /\ AcceptedWhileActive
         /\ (LastEmitted = <<>> \/ LastEmitted[Len(LastEmitted)] # event) )
       => /\ TaggedAddress(event) \in DOMAIN storage.events_of_blocked_accounts
          /\ LET queue == storage.events_of_blocked_accounts[TaggedAddress(event)]
             IN queue # <<>> /\ queue[Len(queue)] = event

\* Eth(7) is blocked and an EthApprovedRelayMessage it sent, accepted while
\* Active, is held in its queue and was not sent
C38_Witness ==
    /\ AcceptedWhileActive
    /\ event.kind = "EthApprovedRelayMessage"
    /\ LastEmitted = <<>>
    /\ DOMAIN storage.events_of_blocked_accounts = {Eth(7)}
    /\ storage.events_of_blocked_accounts[Eth(7)] = <<event>>

\* ------------------------------------------------------------------------
\* C39: the store answers a query only with records above the offset sent
\* in it.  Then no offset of the EventListener ever decreases, and the four
\* offsets move independently: an offset that moves goes to the block
\* number of a record of its own category above its old value, whatever
\* the other categories hold and whether their requests succeed.
C39_OffsetsNeverDecrease ==
    [][ \A c \in Categories :
           /\ offsets'[c] >= offsets[c]
           /\ offsets'[c] # offsets[c]
                => \E r \in graph_node[c] :
                      /\ r.eth_block_number = offsets'[c]
                      /\ r.eth_block_number > offsets[c] ]_vars

\* set_offsets put the offset of the transfer messages at 9 and that of the
\* bridge messages at 6; a pass of the loop then moved the first to 11 and
\* left the second, whose category had a new record at block 8
C39_Witness ==
    /\ listener_pc.ticks >= 1
    /\ offsets.messages = 11
    /\ offsets.bridge_messages = 6
    /\ Rec(18, 8, "RESUME", "") \in graph_node.bridge_messages
    /\ offsets.account_messages = 0
    /\ offsets.limit_messages = 0

====
